---- MODULE Spec2Model ----
(***************************************************************************)
(* Session management subsystem of pty-mcp-server: the four singleton      *)
(* channel classes (PTYSession, ProcessSession, SocketSession,             *)
(* SerialSession), the SessionManager slots that hold them, the tools that *)
(* open, use and close them, and the operating system they act on (child   *)
(* processes, descriptors, connections); the TmuxSessionManager and the    *)
(* tmux daemon; the ToolRegistry with its discovery and dispatch; and the  *)
(* two entry points' shutdown.                                             *)
(***************************************************************************)
EXTENDS Naturals, Integers, Sequences, FiniteSets, TLC

(* ---------------------------------------------------------------- bounds *)
\* Process-table entries the operating system grants (fork fails beyond).
MaxPid == 2
\* Descriptors above stdin/stdout/stderr the process may hold (EMFILE beyond).
MaxFds == 4
\* Sockets / serial handles the process may hold at once.
MaxConn == 2
\* Units of unread data a pipe, pty or socket buffers before the peer blocks.
MaxBuf == 2
\* A read's accumulated output is told apart up to this many units.
MaxOut == 2
\* Plugin modules one category directory holds.
MaxModules == 2
MaxData == 2       \* characters of a payload handed to send

(* ------------------------------------------------------------ value sets *)
\* Python's None for a descriptor, a Popen reference or a socket reference.
None == 0
NoneStr == "None"

Pids == 1..MaxPid
\* 0, 1, 2 are the transport's stdin/stdout/stderr: openpty returns 3 and up.
FirstFd == 3
Fds == FirstFd..(FirstFd + MaxFds - 1)
ConnIds == 1..MaxConn

\* Commands a caller can name: a shell, a set-uid program (signals from the
\* server to it fail with EPERM), and a name that is no executable.
Commands == {"bash", "su", "nosuchcmd"}
\* The payloads of send: strings of a letter, "\n" (nl) and "\r" (cr).
Chars == {"x", "nl", "cr"}
Payloads == UNION {[1..n -> Chars] : n \in 0..MaxData}

\* The directory the server process runs in, a directory a caller names, and
\* the project the configuration may name as active, with its path.
ServerCwd == "/srv"
WorkDir == "/work"
NoProject == [name |-> "None", path |-> "None"]
DemoProject == [name |-> "demo", path |-> "/proj"]
\* projects.json's name -> path mapping: a project whose directory is there
\* and one whose directory is gone; and the directories that exist.
Projects == ("demo" :> "/proj") @@ ("gone" :> "/gone")
ExistingPaths == {"/srv", "/work", "/proj"}
\* The names a caller may ask to activate; "ghost" is in no configuration.
ProjectNames == {"demo", "gone", "ghost"}
Hosts == {"echo.local", "refused.local"}
Ports == {"7"}
Protocols == {"tcp", "udp", "sctp"}
Devices == {"ttyUSB0", "ttyMissing"}
Bauds == {"9600"}
\* Session names a caller gives the multiplexer.
TmuxNames == {"ma", "main"}
\* What tmux-send is asked to type: a command line, and a word that tmux reads
\* as the name of a key.
Keys == {"ls", "Enter"}
KeyNames == {"Enter"}

\* JSON arguments of a tool call: two fields, each absent or holding a value
\* of one JSON type; the arguments value itself can be null instead of an
\* object.
Fields == {"host", "port"}
FieldOrder == <<"host", "port">>
ValueTypes == {"string", "integer", "boolean", "array", "object", "null"}
EmptyArguments == [dict |-> TRUE, v |-> [f \in Fields |-> "absent"]]
NullArguments == [dict |-> FALSE, v |-> [f \in Fields |-> "absent"]]
Arguments ==
    {[dict |-> TRUE, v |-> v] : v \in [Fields -> ValueTypes \cup {"absent"}]}
    \cup {NullArguments}
\* The arguments tool calls are dispatched with: null, none, a host and a
\* port, a host only, a flag, a number where a string belongs.
CallArguments ==
    {NullArguments, EmptyArguments,
     [dict |-> TRUE, v |-> [host |-> "string", port |-> "integer"]],
     [dict |-> TRUE, v |-> [host |-> "string", port |-> "absent"]],
     [dict |-> TRUE, v |-> [host |-> "boolean", port |-> "absent"]],
     [dict |-> TRUE, v |-> [host |-> "integer", port |-> "integer"]]}

\* Tool names and categories handlers declare, and a name nothing declares.
ToolNames == {"bash", "socket-open"}
Categories == {"terminal", "network"}
NamesAsked == ToolNames \cup {"no-such-tool"}

\* input_schema values: the required list and the declared type of each
\* property ("undeclared": not in properties).
SchemaOpen ==
    [required |-> <<"host", "port">>, properties |-> [host |-> "string", port |-> "number"]]
SchemaFlags ==
    [required |-> <<"host">>, properties |-> [host |-> "boolean", port |-> "array"]]
SchemaLoose ==
    [required |-> <<>>, properties |-> [host |-> "object", port |-> "undeclared"]]

\* BaseTool subclasses a plugin directory can hold: what the constructor and
\* the category property do, the schema, and what execute does.
HandlerClasses ==
    [BashTool |->
        [cls |-> "BashTool", name |-> "bash", category |-> "terminal", ctor |-> "ok",
         catprop |-> "ok", schema |-> SchemaLoose, behaviour |-> "success"],
     BashNet |->
        [cls |-> "BashNet", name |-> "bash", category |-> "network", ctor |-> "ok",
         catprop |-> "ok", schema |-> SchemaFlags, behaviour |-> "failure"],
     SocketOpenTool |->
        [cls |-> "SocketOpenTool", name |-> "socket-open", category |-> "network",
         ctor |-> "ok", catprop |-> "ok", schema |-> SchemaOpen, behaviour |-> "raises"],
     SocketNone |->
        [cls |-> "SocketNone", name |-> "socket-open", category |-> "network",
         ctor |-> "ok", catprop |-> "ok", schema |-> SchemaLoose,
         behaviour |-> "returns_none"],
     QuietTool |->
        [cls |-> "QuietTool", name |-> "bash", category |-> "terminal", ctor |-> "ok",
         catprop |-> "ok", schema |-> SchemaLoose, behaviour |-> "fails_quietly"],
     BrokenCtor |->
        [cls |-> "BrokenCtor", name |-> "bash", category |-> "terminal", ctor |-> "raises",
         catprop |-> "ok", schema |-> SchemaLoose, behaviour |-> "success"],
     BrokenCategory |->
        [cls |-> "BrokenCategory", name |-> "socket-open", category |-> "network",
         ctor |-> "ok", catprop |-> "raises", schema |-> SchemaLoose,
         behaviour |-> "success"]]
ClassIds == DOMAIN HandlerClasses

\* Plugin modules: whether import_module succeeds, and the BaseTool
\* subclasses inspect.getmembers finds, in its order.
Modules ==
    [shell |-> [imports |-> TRUE, classes |-> <<"BashTool", "BrokenCategory", "BrokenCtor">>],
     legacy |-> [imports |-> FALSE, classes |-> <<"SocketNone">>],
     net |-> [imports |-> TRUE, classes |-> <<"BashNet", "SocketOpenTool">>]]
ModuleIds == DOMAIN Modules

\* The module files of one category directory, in glob order.
ModuleLists ==
    {m \in UNION {[1..n -> ModuleIds] : n \in 0..MaxModules} :
        \A i, j \in DOMAIN m : i # j => m[i] # m[j]}
\* plugins/: its category directories, in iterdir order.
PluginTrees ==
    {t \in [1..2 -> [category : Categories, modules : ModuleLists]] :
        t[1].category # t[2].category}
NoPlugins == <<[category |-> "terminal", modules |-> <<>>],
               [category |-> "network", modules |-> <<>>]>>

FreeProc == [kind |-> "free", st |-> "none", priv |-> FALSE, buf |-> <<>>, cwd |-> "none"]
FreeConn == [kind |-> "free", st |-> "none", buf |-> 0]

(* ----------------------------------------------------------------- state *)
VARIABLES
    pty_session,    \* SessionManager.pty_session
    proc_session,   \* SessionManager.proc_session
    socket_session, \* SessionManager.socket_session
    serial_session, \* SessionManager.serial_session
    openFds,        \* descriptors open in the server process (pty pairs)
    procs,          \* the OS process table: the server's children
    conns,          \* the OS's sockets and serial handles of the server
    tmux_manager,   \* SessionManager.tmux_manager
    tmuxd,          \* the tmux daemon: is the binary there, and its sessions
    pyserial,       \* whether "import serial" succeeds in this installation
    registry,       \* the ToolRegistry: _tools and _categories
    plugins,        \* the plugins/ directory of this installation
    server,         \* "running" until an entry point's main() has returned
    client,         \* the channel variants the caller of this run drives
    active_project, \* SessionManager.active_project
    config,         \* the ProjectConfig (projects.json, .active_project) and the server's cwd
    rd,             \* the read(timeout) call in progress, if any
    threads,        \* the calls in progress when commands are dispatched to threads
    ret             \* what the most recent completed call returned or raised

vars == <<pty_session, proc_session, socket_session, serial_session,
          tmux_manager, tmuxd, openFds, procs, conns, pyserial, registry, plugins,
          server, client, active_project, config, rd, threads, ret>>

Variants == {"pty", "proc", "socket", "serial"}

\* A slot holding None (its fields read as None), and the objects the
\* constructors build.
NoPTY == [exists |-> FALSE, master_fd |-> None, slave_fd |-> None, process |-> None]
NoProc == [exists |-> FALSE, process |-> None]
NoSocket == [exists |-> FALSE, socket |-> None, host |-> NoneStr, port |-> NoneStr]
NoSerial == [exists |-> FALSE, serial |-> None, device |-> NoneStr, baudrate |-> NoneStr]
\* PTYSession.__init__
NewPTY == [exists |-> TRUE, master_fd |-> None, slave_fd |-> None, process |-> None]
\* ProcessSession.__init__
NewProc == [exists |-> TRUE, process |-> None]
\* SocketSession.__init__
NewSocket == [exists |-> TRUE, socket |-> None, host |-> NoneStr, port |-> NoneStr]
\* SerialSession.__init__
NewSerial == [exists |-> TRUE, serial |-> None, device |-> NoneStr, baudrate |-> NoneStr]

\* SessionManager.tmux_manager holding None, and TmuxSessionManager.__init__
NoTmux == [exists |-> FALSE, sessions |-> {}]
NewTmux == [exists |-> TRUE, sessions |-> {}]

\* No handler under a name.
NoTool ==
    [cls |-> "none", name |-> "none", category |-> "none", catprop |-> "ok",
     schema |-> SchemaLoose, behaviour |-> "none", sm |-> "none"]
\* ToolRegistry.__init__: no tool, no category, the SessionManager given.
NewRegistry ==
    [tools |-> [n \in ToolNames |-> NoTool], categories |-> [c \in Categories |-> <<>>],
     session_manager |-> "given"]

\* The request a registry call was made with, and the MCP envelope it returned.
NoRequest == [name |-> "none", arguments |-> EmptyArguments, category |-> "None"]
NoEnvelope == [kind |-> "none", about |-> <<>>]

\* Two worker threads, no call in progress on either: what a server that
\* hands each inbound command to a thread would run.  "sequential" starts a
\* command only when no other is in progress.
Threads == {1, 2}
NoCall == [op |-> "none", pc |-> "idle", res |-> "none"]
NoThreads == [mode |-> "sequential", t |-> [i \in Threads |-> NoCall]]

\* No read in progress.
Idle == [v |-> "none", out |-> 0, k |-> "none", blocked |-> FALSE, asked |-> "None"]

\* The world a method acts on, as one value, so that a handler can chain calls.
World == [pty |-> pty_session, proc |-> proc_session, sock |-> socket_session,
          ser |-> serial_session, fds |-> openFds, procs |-> procs, conns |-> conns,
          tmux |-> tmux_manager, tmuxd |-> tmuxd, project |-> active_project,
          config |-> config]

Apply(w) ==
    /\ pty_session' = w.pty
    /\ proc_session' = w.proc
    /\ socket_session' = w.sock
    /\ serial_session' = w.ser
    /\ openFds' = w.fds
    /\ procs' = w.procs
    /\ conns' = w.conns
    /\ tmux_manager' = w.tmux
    /\ tmuxd' = w.tmuxd
    /\ active_project' = w.project
    /\ config' = w.config

Min(S) == CHOOSE x \in S : \A y \in S : x <= y

\* What a call hands back: the value or exception (res), the units of data a
\* read returned (data), whether the call touched an OS handle for I/O (io),
\* and how many bounded waits of a read ran out (waits).
\* op is filled in by the caller with the name of the call.
Returned(res) ==
    [op |-> "none", res |-> res, data |-> 0, io |-> FALSE, waits |-> 0, sigs |-> <<>>,
     req |-> NoRequest, env |-> NoEnvelope, out |-> {}, payload |-> <<>>, wrote |-> <<>>]
ReadReturned(res, data, waits) ==
    [op |-> "none", res |-> res, data |-> data, io |-> TRUE, waits |-> waits,
     sigs |-> <<>>, req |-> NoRequest, env |-> NoEnvelope, out |-> {}, payload |-> <<>>,
     wrote |-> <<>>]
\* terminate() hands back, besides its result, the signals it sent its child.
Terminated(res, sigs) == [Returned(res) EXCEPT !.sigs = sigs]
Ret(op, res) == [Returned(res) EXCEPT !.op = op]

Cap(n) == IF n > MaxOut THEN MaxOut ELSE n

(* ------------------------------------------------- operating system model *)
FreeFds(fds) == Fds \ fds
FreePids(pt) == {p \in Pids : pt[p].kind = "free"}
FreeConns(ct) == {c \in ConnIds : ct[c].kind = "free"}

\* subprocess.Popen(...): the executable must exist and fork must succeed.
PopenFails(pt, command) == command = "nosuchcmd" \/ FreePids(pt) = {}

\* Popen(cwd=None) leaves the child in the directory of the server.
Cwd(w, working_dir) == IF working_dir = "None" THEN w.config.cwd ELSE working_dir
Spawned(pt, kind, command, working_dir) ==
    [pt EXCEPT ![Min(FreePids(pt))] =
        [kind |-> kind, st |-> "running", priv |-> (command = "su"), buf |-> <<>>,
         cwd |-> working_dir]]

\* Popen.poll() is None
Running(pt, p) == p # None /\ pt[p].st = "running"

\* The last reference to a Popen object goes away: an exited child is reaped
\* and its entry leaves the table; a child still running stays, unowned.
DropPopen(pt, p) ==
    IF p # None /\ pt[p].st = "exited" THEN [pt EXCEPT ![p] = FreeProc] ELSE pt

(* ------------------------------------------------------------ PTYSession *)
\* PTYSession.start without its already-active check.
Mutant_PTYSession_start(w, command, working_dir) ==
    IF Cardinality(FreeFds(w.fds)) < 2 \/ PopenFails(w.procs, command)
    THEN [w |-> w, res |-> "OSError"]
    ELSE LET m == Min(FreeFds(w.fds))
             s == Min(FreeFds(w.fds) \ {m})
         IN [w |-> [w EXCEPT !.pty.master_fd = m, !.pty.slave_fd = s,
                             !.fds = w.fds \cup {m, s},
                             !.pty.process = Min(FreePids(w.procs)),
                             !.procs = Spawned(w.procs, "pty", command, Cwd(w, working_dir))],
             res |-> "True"]

\* PTYSession.start
PTYSession_start(w, command, working_dir) ==
    IF w.pty.process # None
    THEN [w |-> w, res |-> "RuntimeError: PTY session already active"]
    ELSE IF Cardinality(FreeFds(w.fds)) < 2
    THEN [w |-> w, res |-> "OSError: out of pty devices"]
    ELSE LET m == Min(FreeFds(w.fds))
             s == Min(FreeFds(w.fds) \ {m})
             w1 == [w EXCEPT !.pty.master_fd = m, !.pty.slave_fd = s,
                             !.fds = w.fds \cup {m, s}]
         IN IF PopenFails(w.procs, command)
            THEN [w |-> w1, res |-> "OSError: Popen failed"]
            ELSE [w |-> [w1 EXCEPT !.pty.process = Min(FreePids(w.procs)),
                                   !.procs = Spawned(w.procs, "pty", command, Cwd(w, working_dir))],
                  res |-> "True"]

\* PTYSession.is_active
PTYSession_is_active(w) ==
    w.pty.process # None /\ Running(w.procs, w.pty.process)

\* The outcomes of process.terminate(); process.wait(timeout=2) on child p:
\* "exited" (the child had exited, or exits within the grace period),
\* "expired" (it ignores SIGTERM: TimeoutExpired), "eperm" (the signal is
\* refused: process.terminate() raises).
TerminateOutcomes(pt, p) ==
    IF pt[p].st = "exited" THEN {"exited"}
    ELSE IF pt[p].priv THEN {"eperm"}
    ELSE {"exited", "expired"}

\* The signals process.terminate() and, after TimeoutExpired, process.kill()
\* send: Popen.send_signal polls first and signals a running child only.
SignalsSent(pt, p, how) ==
    IF pt[p].st = "exited" THEN <<>>
    ELSE IF how = "expired" THEN <<"SIGTERM", "SIGKILL">>
    ELSE <<"SIGTERM">>

\* The process block shared by PTYSession.terminate and ProcessSession.terminate:
\* the process table once "self.process = None" has run.  The child has
\* exited on SIGTERM within wait(timeout=2), or was sent SIGKILL.
TerminatedProcs(pt, p, how) ==
    DropPopen([pt EXCEPT ![p].st = "exited", ![p].buf = <<>>], p)

\* PTYSession.terminate
PTYSession_terminate(w, how) ==
    IF w.pty.process # None /\ how = "eperm"
    THEN [w |-> w, res |-> "PermissionError", sigs |-> <<>>]
    ELSE LET w1 == IF w.pty.process # None
                   THEN [w EXCEPT !.procs = TerminatedProcs(w.procs, w.pty.process, how),
                                  !.pty.process = None]
                   ELSE w
             w2 == IF w1.pty.master_fd # None
                   THEN [w1 EXCEPT !.fds = w1.fds \ {w1.pty.master_fd},
                                   !.pty.master_fd = None]
                   ELSE w1
             w3 == IF w2.pty.slave_fd # None
                   THEN [w2 EXCEPT !.fds = w2.fds \ {w2.pty.slave_fd},
                                   !.pty.slave_fd = None]
                   ELSE w2
         IN [w |-> w3, res |-> "True",
             sigs |-> IF w.pty.process # None
                      THEN SignalsSent(w.procs, w.pty.process, how) ELSE <<>>]

(* -------------------------------------------------------- ProcessSession *)
\* ProcessSession.start
ProcessSession_start(w, command, working_dir) ==
    IF w.proc.process # None
    THEN [w |-> w, res |-> "RuntimeError: Process already active"]
    ELSE IF PopenFails(w.procs, command)
    THEN [w |-> w, res |-> "OSError: Popen failed"]
    ELSE [w |-> [w EXCEPT !.proc.process = Min(FreePids(w.procs)),
                          !.procs = Spawned(w.procs, "proc", command, Cwd(w, working_dir))],
          res |-> "True"]

\* ProcessSession.is_active
ProcessSession_is_active(w) ==
    w.proc.process # None /\ Running(w.procs, w.proc.process)

\* ProcessSession.terminate
ProcessSession_terminate(w, how) ==
    IF w.proc.process # None /\ how = "eperm"
    THEN [w |-> w, res |-> "PermissionError", sigs |-> <<>>]
    ELSE IF w.proc.process # None
    THEN [w |-> [w EXCEPT !.procs = TerminatedProcs(w.procs, w.proc.process, how),
                          !.proc.process = None],
          res |-> "True", sigs |-> SignalsSent(w.procs, w.proc.process, how)]
    ELSE [w |-> w, res |-> "True", sigs |-> <<>>]

(* --------------------------------------------------------- SocketSession *)
\* socket.connect((host, port)): a TCP connect to a host that refuses fails;
\* a UDP connect only records the peer address.
ConnectFails(host, protocol) == protocol = "tcp" /\ host = "refused.local"

\* SocketSession.open
SocketSession_open(w, host, port, protocol) ==
    IF w.sock.socket # None
    THEN [w |-> w, res |-> "RuntimeError: Socket already open"]
    ELSE IF protocol \notin {"tcp", "udp"}
    THEN [w |-> w, res |-> "ValueError: Unknown protocol"]
    ELSE IF FreeConns(w.conns) = {}
    THEN [w |-> w, res |-> "OSError: socket() failed"]
    ELSE LET c == Min(FreeConns(w.conns))
             w1 == [w EXCEPT !.sock.socket = c,
                             !.conns[c] = [kind |-> protocol, st |-> "unconnected",
                                           buf |-> 0]]
         IN IF ConnectFails(host, protocol)
            THEN [w |-> w1, res |-> "ConnectionRefusedError"]
            ELSE [w |-> [w1 EXCEPT !.conns[c].st = "connected",
                                   !.sock.host = host, !.sock.port = port],
                  res |-> "True"]

\* SocketSession.is_active
SocketSession_is_active(w) == w.sock.socket # None

\* SocketSession.close that refuses a channel that is not open.
Mutant_SocketSession_close(w) ==
    IF w.sock.socket # None
    THEN [w |-> [w EXCEPT !.conns[w.sock.socket] = FreeConn,
                          !.sock.socket = None, !.sock.host = NoneStr,
                          !.sock.port = NoneStr],
          res |-> "True"]
    ELSE [w |-> w, res |-> "RuntimeError: Socket not open"]

\* SocketSession.close
SocketSession_close(w) ==
    IF w.sock.socket # None
    THEN [w |-> [w EXCEPT !.conns[w.sock.socket] = FreeConn,
                          !.sock.socket = None, !.sock.host = NoneStr,
                          !.sock.port = NoneStr],
          res |-> "True"]
    ELSE [w |-> w, res |-> "True"]

(* --------------------------------------------------------- SerialSession *)
\* serial.Serial(**config): opening a device that is absent fails.
SerialFails(device) == device = "ttyMissing"

\* SerialSession.open
SerialSession_open(w, device, baudrate, installed) ==
    IF ~installed
    THEN [w |-> w, res |-> "RuntimeError: pyserial not installed"]
    ELSE IF w.ser.serial # None
    THEN [w |-> w, res |-> "RuntimeError: Serial port already open"]
    ELSE IF SerialFails(device) \/ FreeConns(w.conns) = {}
    THEN [w |-> w, res |-> "SerialException"]
    ELSE LET c == Min(FreeConns(w.conns))
         IN [w |-> [w EXCEPT !.ser.serial = c, !.ser.device = device,
                             !.ser.baudrate = baudrate,
                             !.conns[c] = [kind |-> "serial", st |-> "open",
                                           buf |-> 0]],
             res |-> "True"]

\* SerialSession.is_active
SerialSession_is_active(w) ==
    w.ser.serial # None /\ w.conns[w.ser.serial].st = "open"

\* SerialSession.close
SerialSession_close(w) ==
    IF w.ser.serial # None
    THEN [w |-> [w EXCEPT !.conns[w.ser.serial] = FreeConn,
                          !.ser.serial = None, !.ser.device = NoneStr,
                          !.ser.baudrate = NoneStr],
          res |-> "True"]
    ELSE [w |-> w, res |-> "True"]

(* ------------------------------------------------------------------ send *)
\* str.endswith
EndsWith(data, suffix) ==
    /\ Len(data) >= Len(suffix)
    /\ SubSeq(data, Len(data) - Len(suffix) + 1, Len(data)) = suffix

\* What a send was given and what it wrote to the channel.
Wrote(r, data, bytes) == [r EXCEPT !.io = TRUE, !.payload = data, !.wrote = bytes]

\* PTYSession.send without its not-open check.
Mutant_PTYSession_send(w, data) ==
    Wrote(Returned("True"), data,
          IF EndsWith(data, <<"nl">>) THEN data ELSE data \o <<"nl">>)

\* PTYSession.send: data gets a newline unless it ends with one, then
\* os.write on the master descriptor.
PTYSession_send(w, data) ==
    IF w.pty.process = None
    THEN [Returned("RuntimeError: No active PTY session") EXCEPT !.payload = data]
    ELSE Wrote(Returned("True"), data,
               IF EndsWith(data, <<"nl">>) THEN data ELSE data \o <<"nl">>)

\* ProcessSession.send: stdin.write(data), stdin.write('\n') unless data ends
\* with one, and flush; the pipe of an exited child is broken.
ProcessSession_send(w, data) ==
    IF w.proc.process = None
    THEN [Returned("RuntimeError: No active process") EXCEPT !.payload = data]
    ELSE IF w.procs[w.proc.process].st = "exited"
    THEN Wrote(Returned("BrokenPipeError"), data, <<>>)
    ELSE Wrote(Returned("True"), data,
               data \o (IF EndsWith(data, <<"nl">>) THEN <<>> ELSE <<"nl">>))

\* SocketSession.send
SocketSession_send(w) ==
    IF w.sock.socket = None
    THEN Returned("RuntimeError: Socket not open")
    ELSE IF w.conns[w.sock.socket].st # "connected"
    THEN [Returned("OSError: send failed") EXCEPT !.io = TRUE]
    ELSE [Returned("sent") EXCEPT !.io = TRUE]

\* SerialSession.send: serial.write(data.encode()), the data as it is.
SerialSession_send(w, data) ==
    IF w.ser.serial = None
    THEN [Returned("RuntimeError: Serial port not open") EXCEPT !.payload = data]
    ELSE Wrote(Returned("sent"), data, data)

(* ------------------------------------------------------------------ read *)
\* A read loop that has passed its not-open check; k names the caller that
\* continues when the loop returns.
Reading(v, k) == [v |-> v, out |-> 0, k |-> k, blocked |-> FALSE, asked |-> "None"]

\* The index of the first newline of a pipe buffer, 0 if it holds none.
FirstNl(buf) ==
    IF \E i \in 1..Len(buf) : buf[i] = "nl"
    THEN Min({i \in 1..Len(buf) : buf[i] = "nl"})
    ELSE 0

\* One pass of the loop of PTYSession.read: select on the master descriptor,
\* then os.read of what is there.  [done, out, buf, waits]
PTYSession_read_pass(buf, out) ==
    IF buf = <<>>
    THEN [done |-> TRUE, out |-> out, buf |-> buf, waits |-> 1]
    ELSE [done |-> FALSE, out |-> Cap(out + Len(buf)), buf |-> <<>>, waits |-> 0]

\* One pass of the loop of ProcessSession.read: select on stdout, then
\* stdout.readline(), which returns at a newline or at end of file and
\* blocks otherwise.  [done, out, buf, waits, blocked]
ProcessSession_read_pass(buf, out, exited, blocked) ==
    IF buf = <<>> /\ ~exited /\ ~blocked
    THEN [done |-> TRUE, out |-> out, buf |-> buf, waits |-> 1, blocked |-> FALSE]
    ELSE IF buf = <<>> /\ exited /\ ~blocked
    THEN [done |-> TRUE, out |-> out, buf |-> buf, waits |-> 0, blocked |-> FALSE]
    ELSE IF FirstNl(buf) # 0
    THEN [done |-> FALSE, out |-> Cap(out + 1), buf |-> SubSeq(buf, FirstNl(buf) + 1, Len(buf)),
          waits |-> 0, blocked |-> FALSE]
    ELSE IF exited
    THEN [done |-> FALSE, out |-> Cap(out + 1), buf |-> <<>>, waits |-> 0, blocked |-> FALSE]
    ELSE [done |-> FALSE, out |-> out, buf |-> <<>>, waits |-> 0, blocked |-> TRUE]

\* SocketSession.read that lets socket.timeout escape.
Mutant_SocketSession_read(w) ==
    IF w.sock.socket = None
    THEN [w |-> w, ret |-> Returned("RuntimeError: Socket not open")]
    ELSE LET c == w.sock.socket
             cn == w.conns[c]
         IN IF cn.st = "unconnected"
            THEN [w |-> w, ret |-> ReadReturned("OSError: not connected", 0, 0)]
            ELSE IF cn.buf > 0
            THEN [w |-> [w EXCEPT !.conns[c].buf = 0],
                  ret |-> ReadReturned("str", Cap(cn.buf), 0)]
            ELSE IF cn.st = "peer_closed"
            THEN [w |-> w, ret |-> ReadReturned("(socket closed by remote)", 0, 0)]
            ELSE [w |-> w, ret |-> ReadReturned("socket.timeout", 0, 1)]

\* SocketSession.read: settimeout, then one recv.
SocketSession_read(w) ==
    IF w.sock.socket = None
    THEN [w |-> w, ret |-> Returned("RuntimeError: Socket not open")]
    ELSE LET c == w.sock.socket
             cn == w.conns[c]
         IN IF cn.st = "unconnected"
            THEN [w |-> w, ret |-> ReadReturned("OSError: not connected", 0, 0)]
            ELSE IF cn.buf > 0
            THEN [w |-> [w EXCEPT !.conns[c].buf = 0],
                  ret |-> ReadReturned("str", Cap(cn.buf), 0)]
            ELSE IF cn.st = "peer_closed"
            THEN [w |-> w, ret |-> ReadReturned("(socket closed by remote)", 0, 0)]
            ELSE [w |-> w, ret |-> ReadReturned("(no data received within timeout)", 0, 1)]

\* SerialSession.read: read(size) waits up to the timeout for size bytes,
\* read_all() takes what is buffered; size 0 stands for None.
SerialSession_read(w, size) ==
    IF w.ser.serial = None
    THEN [w |-> w, ret |-> Returned("RuntimeError: Serial port not open")]
    ELSE LET c == w.ser.serial
             n == w.conns[c].buf
         IN IF n = 0
            THEN [w |-> w, ret |-> ReadReturned("(no data received)", 0,
                                                 IF size # 0 THEN 1 ELSE 0)]
            ELSE IF size # 0
            THEN [w |-> [w EXCEPT !.conns[c].buf = n - 1], ret |-> ReadReturned("str", 1, 0)]
            ELSE [w |-> [w EXCEPT !.conns[c].buf = 0], ret |-> ReadReturned("str", Cap(n), 0)]

(* ---------------------------------------------------- TmuxSessionManager *)
\* t is the start of the session name s.
IsPrefix(t, s) == t = s \/ (t = "ma" /\ s = "main")

\* The session a tmux command given "-t session_name" acts on: the session of
\* exactly that name, else the only session whose name starts with it
\* (tmux(1), target-session); none is the empty set.
Target(w, session_name) ==
    IF session_name \in w.tmuxd.sessions THEN {session_name}
    ELSE LET m == {n \in w.tmuxd.sessions : IsPrefix(session_name, n)}
         IN IF Cardinality(m) = 1 THEN m ELSE {}

\* TmuxSessionManager.check_tmux_installed
TmuxSessionManager_check_tmux_installed(w) == w.tmuxd.installed

\* A session_exists that answers from the local tracking table.
Mutant_TmuxSessionManager_session_exists(w, session_name) ==
    IF ~w.tmuxd.installed THEN "FileNotFoundError"
    ELSE IF session_name \in w.tmux.sessions THEN "True" ELSE "False"

\* TmuxSessionManager.session_exists: "tmux has-session -t session_name".
\* subprocess.run raises FileNotFoundError when there is no tmux binary.
TmuxSessionManager_session_exists(w, session_name) ==
    IF ~w.tmuxd.installed THEN "FileNotFoundError"
    ELSE IF Target(w, session_name) # {} THEN "True" ELSE "False"

\* TmuxSessionManager.start_session; created tells whether the daemon's
\* new-session command succeeds.
TmuxSessionManager_start_session(w, session_name, created) ==
    LET e == TmuxSessionManager_session_exists(w, session_name)
    IN IF e = "FileNotFoundError" THEN [w |-> w, res |-> e, out |-> {}]
       ELSE IF e = "True"
       THEN [w |-> w, res |-> "error: Session already exists", out |-> {}]
       ELSE IF ~created
       THEN [w |-> w, res |-> "error: Failed to create session", out |-> {}]
       ELSE [w |-> [w EXCEPT !.tmuxd.sessions = @ \cup {session_name},
                             !.tmuxd.pane[session_name] = {},
                             !.tmux.sessions = @ \cup {session_name}],
             res |-> "success: Started tmux session", out |-> {}]

\* TmuxSessionManager.list_sessions: the names "tmux list-sessions" prints;
\* the empty list when the command fails, as it does with no session.
TmuxSessionManager_list_sessions(w) ==
    IF ~w.tmuxd.installed THEN [w |-> w, res |-> "FileNotFoundError", out |-> {}]
    ELSE [w |-> w, res |-> "list", out |-> w.tmuxd.sessions]

\* TmuxSessionManager.send_keys: "tmux send-keys -t session_name keys Enter".
\* tmux takes each argument that is the name of a key for that key, as the
\* code relies on for "Enter", and any other argument for text to type;
\* typed text shows in the pane.
TmuxSessionManager_send_keys(w, session_name, keys) ==
    LET e == TmuxSessionManager_session_exists(w, session_name)
        t == Target(w, session_name)
    IN IF e = "FileNotFoundError" THEN [w |-> w, res |-> e, out |-> {}]
       ELSE IF e = "False" THEN [w |-> w, res |-> "error: Session not found", out |-> {}]
       ELSE IF keys \in KeyNames
       THEN [w |-> w, res |-> "success: Sent keys", out |-> {}]
       ELSE [w |-> [w EXCEPT !.tmuxd.pane =
                               [n \in TmuxNames |-> IF n \in t THEN @[n] \cup {keys} ELSE @[n]]],
             res |-> "success: Sent keys", out |-> {}]

\* TmuxSessionManager.capture_pane: "tmux capture-pane -t session_name -p".
TmuxSessionManager_capture_pane(w, session_name) ==
    LET e == TmuxSessionManager_session_exists(w, session_name)
        t == Target(w, session_name)
    IN IF e = "FileNotFoundError" THEN [w |-> w, res |-> e, out |-> {}]
       ELSE IF e = "False" THEN [w |-> w, res |-> "error: Session not found", out |-> {}]
       ELSE [w |-> w, res |-> "success: output", out |-> UNION {w.tmuxd.pane[n] : n \in t}]

\* TmuxSessionManager.get_attach_command
TmuxSessionManager_get_attach_command(w, session_name) ==
    LET e == TmuxSessionManager_session_exists(w, session_name)
    IN IF e = "FileNotFoundError" THEN [w |-> w, res |-> e, out |-> {}]
       ELSE IF e = "False" THEN [w |-> w, res |-> "error: Session not found", out |-> {}]
       ELSE [w |-> w, res |-> "success: tmux attach -t", out |-> {session_name}]

\* TmuxSessionManager.kill_session; killed tells whether the daemon's
\* kill-session command succeeds.
TmuxSessionManager_kill_session(w, session_name, killed) ==
    LET e == TmuxSessionManager_session_exists(w, session_name)
        t == Target(w, session_name)
    IN IF e = "FileNotFoundError" THEN [w |-> w, res |-> e, out |-> {}]
       ELSE IF e = "False" THEN [w |-> w, res |-> "error: Session not found", out |-> {}]
       ELSE IF ~killed THEN [w |-> w, res |-> "error: Failed to kill session", out |-> {}]
       ELSE [w |-> [w EXCEPT !.tmuxd.sessions = @ \ t,
                             !.tmuxd.pane = [n \in TmuxNames |-> IF n \in t THEN {} ELSE @[n]],
                             !.tmux.sessions = @ \ {session_name}],
             res |-> "success: Killed session", out |-> {}]

\* A cleanup_all that kills the sessions it tracks.
Mutant_TmuxSessionManager_cleanup_all(w) ==
    [w EXCEPT !.tmuxd.sessions = @ \ w.tmux.sessions, !.tmux.sessions = {}]

\* TmuxSessionManager.cleanup_all: clears the local tracking only.
TmuxSessionManager_cleanup_all(w) == [w EXCEPT !.tmux.sessions = {}]

(* -------------------------------------------------------- SessionManager *)
\* get_pty_session constructing a PTYSession at every call.
Mutant_Get_pty_session(w) == [w EXCEPT !.pty = NewPTY]

\* SessionManager.get_pty_session
Get_pty_session(w) == IF w.pty.exists THEN w ELSE [w EXCEPT !.pty = NewPTY]
\* SessionManager.get_proc_session
Get_proc_session(w) == IF w.proc.exists THEN w ELSE [w EXCEPT !.proc = NewProc]
\* SessionManager.get_socket_session
Get_socket_session(w) == IF w.sock.exists THEN w ELSE [w EXCEPT !.sock = NewSocket]
\* SessionManager.get_serial_session
Get_serial_session(w) == IF w.ser.exists THEN w ELSE [w EXCEPT !.ser = NewSerial]
\* SessionManager.get_tmux_manager
Get_tmux_manager(w) == IF w.tmux.exists THEN w ELSE [w EXCEPT !.tmux = NewTmux]

\* SessionManager.cleanup_all: the five blocks in order, none guarded by a
\* try: an exception raised by one block leaves the method at once.
SessionManager_cleanup_all(w, how_pty, how_proc) ==
    LET r1 == IF w.pty.exists THEN PTYSession_terminate(w, how_pty)
              ELSE [w |-> w, res |-> "True"]
        r2 == IF r1.w.proc.exists THEN ProcessSession_terminate(r1.w, how_proc)
              ELSE [w |-> r1.w, res |-> "True"]
        w3 == IF r2.w.sock.exists THEN SocketSession_close(r2.w).w ELSE r2.w
        w4 == IF w3.ser.exists THEN SerialSession_close(w3).w ELSE w3
        w5 == IF w4.tmux.exists THEN TmuxSessionManager_cleanup_all(w4) ELSE w4
    IN IF r1.res # "True" THEN [w |-> r1.w, res |-> r1.res]
       ELSE IF r2.res # "True" THEN [w |-> r2.w, res |-> r2.res]
       ELSE [w |-> w5, res |-> "None"]

\* A slot is set to None while it holds the only reference to its object:
\* the object is collected.  Descriptors are plain integers and stay open;
\* a Popen, socket or Serial object goes with its owner.
DropPTYObject(w) ==
    [w EXCEPT !.procs = DropPopen(w.procs, w.pty.process), !.pty = NoPTY]
DropProcObject(w) ==
    [w EXCEPT !.procs = DropPopen(w.procs, w.proc.process), !.proc = NoProc]
DropSocketObject(w) ==
    [w EXCEPT !.conns = IF w.sock.socket # None
                        THEN [w.conns EXCEPT ![w.sock.socket] = FreeConn]
                        ELSE w.conns,
              !.sock = NoSocket]
DropSerialObject(w) ==
    [w EXCEPT !.conns = IF w.ser.serial # None
                        THEN [w.conns EXCEPT ![w.ser.serial] = FreeConn]
                        ELSE w.conns,
              !.ser = NoSerial]

(* ---------------------------------------------------------------- actions *)
\* The outcomes the operating system can give a terminate() of child p.
HowSet(p) == IF p # None THEN TerminateOutcomes(procs, p) ELSE {"exited"}

Done(w, r, op) ==
    /\ server = "running"
    /\ Apply(w) /\ ret' = [r EXCEPT !.op = op]
    /\ UNCHANGED <<threads, pyserial, registry, plugins, server, client, rd>>

\* A run that looks at working directories drives the tools that spawn a
\* child, with and without a working_dir; the other runs name none.
Opens(v) == v \in client
\* A run that looks at what send writes sends its channel every payload; the
\* other runs send one.
Sends(v) == v \in client
Payloads_of_client == IF "lines" \in client THEN Payloads ELSE {<<"x">>}
WorkingDirs == IF "project" \in client THEN {"None", WorkDir} ELSE {"None"}

(* Direct calls of the accessors and of the channel methods. *)
Call_get_session ==
    /\ rd = Idle
    /\ \/ "pty" \in client /\ Done(Get_pty_session(World), Returned("PTYSession"), "get_pty_session")
       \/ "proc" \in client /\ Done(Get_proc_session(World), Returned("ProcessSession"), "get_proc_session")
       \/ "socket" \in client /\ Done(Get_socket_session(World), Returned("SocketSession"), "get_socket_session")
       \/ "serial" \in client /\ Done(Get_serial_session(World), Returned("SerialSession"), "get_serial_session")
       \/ "tmux" \in client /\ Done(Get_tmux_manager(World), Returned("TmuxSessionManager"), "get_tmux_manager")

Call_PTY_start ==
    /\ rd = Idle /\ "pty" \in client /\ pty_session.exists
    /\ \E command \in Commands, working_dir \in WorkingDirs :
         LET r == PTYSession_start(World, command, working_dir)
         IN Done(r.w, Returned(r.res), "PTYSession.start")

Call_PTY_send ==
    /\ rd = Idle /\ Sends("pty") /\ pty_session.exists
    /\ \E data \in Payloads_of_client :
         Done(World, PTYSession_send(World, data), "PTYSession.send")

Call_PTY_read ==
    /\ rd = Idle /\ "pty" \in client /\ pty_session.exists
    /\ IF pty_session.process = None
       THEN Done(World, Returned("RuntimeError: No active PTY session"), "PTYSession.read")
       ELSE /\ server = "running"
            /\ rd' = Reading("pty", "PTYSession.read") /\ Apply(World)
            /\ UNCHANGED <<threads, pyserial, registry, plugins, server, client, ret>>

Call_PTY_terminate ==
    /\ rd = Idle /\ "pty" \in client /\ pty_session.exists
    /\ \E how \in HowSet(pty_session.process) :
         LET r == PTYSession_terminate(World, how)
         IN Done(r.w, Terminated(r.res, r.sigs), "PTYSession.terminate")

Call_Process_start ==
    /\ rd = Idle /\ "proc" \in client /\ proc_session.exists
    /\ \E command \in Commands, working_dir \in WorkingDirs :
         LET r == ProcessSession_start(World, command, working_dir)
         IN Done(r.w, Returned(r.res), "ProcessSession.start")

Call_Process_send ==
    /\ rd = Idle /\ Sends("proc") /\ proc_session.exists
    /\ \E data \in Payloads_of_client :
         Done(World, ProcessSession_send(World, data), "ProcessSession.send")

Call_Process_read ==
    /\ rd = Idle /\ "proc" \in client /\ proc_session.exists
    /\ IF proc_session.process = None
       THEN Done(World, Returned("RuntimeError: No active process"), "ProcessSession.read")
       ELSE /\ server = "running"
            /\ rd' = Reading("proc", "ProcessSession.read") /\ Apply(World)
            /\ UNCHANGED <<threads, pyserial, registry, plugins, server, client, ret>>

Call_Process_terminate ==
    /\ rd = Idle /\ "proc" \in client /\ proc_session.exists
    /\ \E how \in HowSet(proc_session.process) :
         LET r == ProcessSession_terminate(World, how)
         IN Done(r.w, Terminated(r.res, r.sigs), "ProcessSession.terminate")

Call_Socket_open ==
    /\ rd = Idle /\ "socket" \in client /\ socket_session.exists
    /\ \E host \in Hosts, port \in Ports, protocol \in Protocols :
         LET r == SocketSession_open(World, host, port, protocol)
         IN Done(r.w, Returned(r.res), "SocketSession.open")

Call_Socket_send ==
    /\ rd = Idle /\ "socket" \in client /\ socket_session.exists
    /\ Done(World, SocketSession_send(World), "SocketSession.send")

Call_Socket_read ==
    /\ rd = Idle /\ "socket" \in client /\ socket_session.exists
    /\ LET r == SocketSession_read(World) IN Done(r.w, r.ret, "SocketSession.read")

Call_Socket_close ==
    /\ rd = Idle /\ "socket" \in client /\ socket_session.exists
    /\ LET r == SocketSession_close(World) IN Done(r.w, Returned(r.res), "SocketSession.close")

Call_Serial_open ==
    /\ rd = Idle /\ "serial" \in client /\ serial_session.exists
    /\ \E device \in Devices, baudrate \in Bauds :
         LET r == SerialSession_open(World, device, baudrate, pyserial)
         IN Done(r.w, Returned(r.res), "SerialSession.open")

Call_Serial_send ==
    /\ rd = Idle /\ Sends("serial") /\ serial_session.exists
    /\ \E data \in Payloads_of_client :
         Done(World, SerialSession_send(World, data), "SerialSession.send")

Call_Serial_read ==
    /\ rd = Idle /\ "serial" \in client /\ serial_session.exists
    /\ \E size \in {0, 1} :
         LET r == SerialSession_read(World, size) IN Done(r.w, r.ret, "SerialSession.read")

Call_Serial_close ==
    /\ rd = Idle /\ "serial" \in client /\ serial_session.exists
    /\ LET r == SerialSession_close(World) IN Done(r.w, Returned(r.res), "SerialSession.close")

Call_cleanup_all ==
    /\ rd = Idle
    /\ \E how_pty \in HowSet(pty_session.process), how_proc \in HowSet(proc_session.process) :
         LET r == SessionManager_cleanup_all(World, how_pty, how_proc)
         IN Done(r.w, Returned(r.res), "cleanup_all")

Call_Tmux_start_session ==
    /\ rd = Idle /\ "tmux" \in client /\ tmux_manager.exists
    /\ \E session_name \in TmuxNames, created \in BOOLEAN :
         LET r == TmuxSessionManager_start_session(World, session_name, created)
         IN Done(r.w, [Returned(r.res) EXCEPT !.req.name = session_name],
                 "TmuxSessionManager.start_session")

Call_Tmux_kill_session ==
    /\ rd = Idle /\ "tmux" \in client /\ tmux_manager.exists
    /\ \E session_name \in TmuxNames, killed \in BOOLEAN :
         LET r == TmuxSessionManager_kill_session(World, session_name, killed)
         IN Done(r.w, [Returned(r.res) EXCEPT !.req.name = session_name],
                 "TmuxSessionManager.kill_session")

Call_Tmux_cleanup_all ==
    /\ rd = Idle /\ "tmux" \in client /\ tmux_manager.exists
    /\ Done(TmuxSessionManager_cleanup_all(World), Returned("None"),
            "TmuxSessionManager.cleanup_all")

(* ----------------------------------------------------------------- tools *)
\* A handler's outcome: the world afterwards, and either the envelope it
\* returns (rd = Idle) or the read it is suspended in.
ToolDone(w, res) == [w |-> w, ret |-> Returned(res), rd |-> Idle]
ToolReads(w, v) == [w |-> w, ret |-> Returned("pending"), rd |-> Reading(v, "tool")]

\* The body shared by BashTool.execute, ConnectTool.execute, SSHTool.execute
\* and TelnetTool.execute, which differ in the command line they build and in
\* the working_dir they hand to start.
PTYOpenTool_execute(w, command, working_dir) ==
    LET w0 == Get_pty_session(w)
    IN IF PTYSession_is_active(w0)
       THEN ToolDone(w0, "error: PTY session already active. Disconnect first.")
       ELSE LET r == PTYSession_start(w0, command, working_dir)
            IN IF r.res = "True"
               THEN ToolReads(r.w, "pty")
               ELSE ToolDone(r.w, "error: exception")

\* "if not working_dir and self.session_manager.active_project:
\*      working_dir = self.session_manager.active_project.get('path')"
ProjectDir(w, working_dir) ==
    IF working_dir = "None" /\ w.project # NoProject THEN w.project.path ELSE working_dir

\* BashTool.execute
BashTool_execute(w, working_dir) ==
    PTYOpenTool_execute(w, "bash", ProjectDir(w, working_dir))
\* ConnectTool.execute
ConnectTool_execute(w, command, working_dir) ==
    PTYOpenTool_execute(w, command, ProjectDir(w, working_dir))
\* SSHTool.execute: pty_session.start(ssh_cmd, ssh_args), no working_dir.
SSHTool_execute(w) == PTYOpenTool_execute(w, "ssh", "None")
\* TelnetTool.execute: pty_session.start("telnet", [host, str(port)]).
TelnetTool_execute(w) == PTYOpenTool_execute(w, "telnet", "None")

\* SendTool.execute
SendTool_execute(w) ==
    LET w0 == Get_pty_session(w)
    IN IF ~PTYSession_is_active(w0)
       THEN ToolDone(w0, "error: No active PTY session. Use 'connect' or 'bash' first.")
       ELSE ToolReads(w0, "pty")

\* DisconnectTool.execute without its "if not pty_session.is_active()" block.
Mutant_DisconnectTool_execute(w, how) ==
    LET w0 == Get_pty_session(w)
        r == PTYSession_terminate(w0, how)
    IN IF r.res = "True"
       THEN ToolDone(DropPTYObject(r.w), "success: PTY session terminated")
       ELSE ToolDone(r.w, "error: exception")

\* DisconnectTool.execute
DisconnectTool_execute(w, how) ==
    LET w0 == Get_pty_session(w)
    IN IF ~PTYSession_is_active(w0)
       THEN ToolDone(w0, "error: No active PTY session")
       ELSE LET r == PTYSession_terminate(w0, how)
            IN IF r.res = "True"
               THEN ToolDone(DropPTYObject(r.w), "success: PTY session terminated")
               ELSE ToolDone(r.w, "error: exception")

\* SpawnTool.execute, up to its read; AfterRead holds the rest.
SpawnTool_execute(w, command, working_dir) ==
    LET w0 == Get_proc_session(w)
        p == w0.proc.process
        w1 == IF p # None /\ w0.procs[p].st = "exited"
              THEN [w0 EXCEPT !.procs = DropPopen(w0.procs, p), !.proc.process = None]
              ELSE w0
    IN IF ProcessSession_is_active(w1)
       THEN ToolDone(w1, "error: Process already active. Kill it first.")
       ELSE LET r == ProcessSession_start(w1, command, ProjectDir(w, working_dir))
            IN IF r.res = "True"
               THEN ToolReads(r.w, "proc")
               ELSE ToolDone(r.w, "error: exception")

\* SendProcTool.execute
SendProcTool_execute(w) ==
    LET w0 == Get_proc_session(w)
    IN IF ~ProcessSession_is_active(w0)
       THEN ToolDone(w0, "error: No active process. Use 'spawn' first.")
       ELSE ToolReads(w0, "proc")

\* KillProcTool.execute
KillProcTool_execute(w, how) ==
    LET w0 == Get_proc_session(w)
    IN IF ~ProcessSession_is_active(w0)
       THEN ToolDone(w0, "error: No active process to kill")
       ELSE LET r == ProcessSession_terminate(w0, how)
            IN IF r.res = "True"
               THEN ToolDone(DropProcObject(r.w), "success: Process terminated")
               ELSE ToolDone(r.w, "error: exception")

\* SocketOpenTool.execute
SocketOpenTool_execute(w, host, port, protocol) ==
    LET w0 == Get_socket_session(w)
    IN IF SocketSession_is_active(w0)
       THEN ToolDone(w0, "error: Socket already open. Close it first.")
       ELSE LET r == SocketSession_open(w0, host, port, protocol)
            IN IF r.res = "True"
               THEN ToolDone(r.w, "success: Socket opened")
               ELSE ToolDone(r.w, "error: exception")

\* SocketReadTool.execute
SocketReadTool_execute(w) ==
    LET w0 == Get_socket_session(w)
    IN IF ~SocketSession_is_active(w0)
       THEN ToolDone(w0, "error: No active socket. Open one with socket-open first.")
       ELSE LET r == SocketSession_read(w0)
            IN [w |-> r.w, rd |-> Idle,
                ret |-> [r.ret EXCEPT !.res = IF r.ret.res = "OSError: not connected"
                                              THEN "error: exception" ELSE "success"]]

\* SocketCloseTool.execute
SocketCloseTool_execute(w) ==
    LET w0 == Get_socket_session(w)
    IN IF ~SocketSession_is_active(w0)
       THEN ToolDone(w0, "error: No active socket to close")
       ELSE ToolDone(DropSocketObject(SocketSession_close(w0).w),
                     "success: Socket closed successfully")

\* SerialOpenTool.execute
SerialOpenTool_execute(w, device, baudrate, installed) ==
    LET w0 == Get_serial_session(w)
    IN IF SerialSession_is_active(w0)
       THEN ToolDone(w0, "error: Serial port already open. Close it first.")
       ELSE LET r == SerialSession_open(w0, device, baudrate, installed)
            IN IF r.res = "True"
               THEN ToolDone(r.w, "success: Serial port opened")
               ELSE ToolDone(r.w, "error: Failed to open serial port")

\* SerialReadTool.execute
SerialReadTool_execute(w, size) ==
    LET w0 == Get_serial_session(w)
    IN IF ~SerialSession_is_active(w0)
       THEN ToolDone(w0, "error: No active serial connection")
       ELSE LET r == SerialSession_read(w0, size)
            IN [w |-> r.w, rd |-> Idle, ret |-> [r.ret EXCEPT !.res = "success"]]

\* SerialMessageTool.execute: the message gets "\r\n" in add_newline mode
\* unless it ends with "\r\n"; with wait_for_prompt the tool then reads what
\* the device has sent until a prompt shows or the timeout runs out.
SerialMessageTool_execute(w, message, add_newline, wait_for_prompt) ==
    LET w0 == Get_serial_session(w)
        framed == IF add_newline /\ ~EndsWith(message, <<"cr", "nl">>)
                  THEN message \o <<"cr", "nl">> ELSE message
        sent == SerialSession_send(w0, framed)
        r == SerialSession_read(w0, 0)
    IN IF ~SerialSession_is_active(w0)
       THEN ToolDone(w0, "error: No active serial connection. Use serial-open first.")
       ELSE [w |-> IF wait_for_prompt THEN r.w ELSE w0, rd |-> Idle,
             ret |-> [sent EXCEPT !.res = "success: Sent bytes", !.payload = message,
                                  !.data = IF wait_for_prompt THEN r.ret.data ELSE 0]]

\* SerialCloseTool.execute
SerialCloseTool_execute(w) ==
    LET w0 == Get_serial_session(w)
    IN IF ~SerialSession_is_active(w0)
       THEN ToolDone(w0, "error: No active serial connection")
       ELSE ToolDone(DropSerialObject(SerialSession_close(w0).w),
                     "success: Serial connection closed")

\* StatusTool.execute clearing every slot, active or not.
Mutant_StatusTool_execute(w) ==
    ToolDone(DropSerialObject(DropSocketObject(DropProcObject(DropPTYObject(w)))),
             "success: status")

\* StatusTool.execute: a slot whose channel is not active is set to None.
StatusTool_execute(w) ==
    LET w1 == IF w.pty.exists /\ ~PTYSession_is_active(w) THEN DropPTYObject(w) ELSE w
        w2 == IF w1.proc.exists /\ ~ProcessSession_is_active(w1)
              THEN DropProcObject(w1) ELSE w1
        w3 == IF w2.sock.exists /\ ~SocketSession_is_active(w2)
              THEN DropSocketObject(w2) ELSE w2
        w4 == IF w3.ser.exists /\ ~SerialSession_is_active(w3)
              THEN DropSerialObject(w3) ELSE w3
    IN ToolDone(w4, "success: status")

\* dict.get(key, {}) of a name -> path mapping: the value under the key if
\* the mapping has that key, else the empty mapping.
DictGet(d, key) == IF key \in DOMAIN d THEN d[key] ELSE << >>

\* SessionManager.__init__: the active project is the persisted name with
\* its path, if the configuration still has that name.
SessionManager_init(cfg) ==
    IF cfg.active_project # "None" /\ cfg.active_project \in DOMAIN cfg.projects
    THEN [name |-> cfg.active_project, path |-> cfg.projects[cfg.active_project]]
    ELSE NoProject

\* SessionManager.save_active_project: config.active_project = the name, and
\* config.save() writes it to the state file.
SessionManager_save_active_project(w) ==
    IF w.project # NoProject
    THEN [w EXCEPT !.config.active_project = w.project.name]
    ELSE w

\* ActivateTool.execute: the name is looked up in what
\* projects_config.get("projects", {}) gives, projects_config being the
\* name -> path mapping itself; then the path must exist; then the active
\* project is set and saved and the server changes into the path.
ActivateTool_execute(w, project_name) ==
    LET projects == DictGet(w.config.projects, "projects")
    IN IF project_name \notin DOMAIN projects
       THEN ToolDone(w, "error: Project not found")
       ELSE IF projects[project_name] \notin ExistingPaths
       THEN ToolDone(w, "error: Project path does not exist")
       ELSE LET project_path == projects[project_name]
                w1 == [w EXCEPT !.project = [name |-> project_name,
                                             path |-> project_path]]
                w2 == SessionManager_save_active_project(w1)
            IN ToolDone([w2 EXCEPT !.config.cwd = project_path], "success: activated")

\* What the five tmux tools after tmux-start do with the dict a manager
\* method returned; an exception of the method becomes the error str(e).
TmuxToolResult(r) ==
    IF r.res = "FileNotFoundError"
    THEN ToolDone(r.w, "error: [Errno 2] No such file or directory: 'tmux'")
    ELSE [ToolDone(r.w, r.res) EXCEPT !.ret.out = r.out]

\* TmuxStartTool.execute: the only tmux tool that asks check_tmux_installed.
TmuxStartTool_execute(w, session_name, created) ==
    LET w0 == Get_tmux_manager(w)
    IN IF ~TmuxSessionManager_check_tmux_installed(w0)
       THEN ToolDone(w0, "error: tmux is not installed")
       ELSE TmuxToolResult(TmuxSessionManager_start_session(w0, session_name, created))

\* TmuxListTool.execute: an empty list is reported as a success.
TmuxListTool_execute(w) ==
    LET r == TmuxSessionManager_list_sessions(Get_tmux_manager(w))
    IN IF r.res = "list" /\ r.out = {}
       THEN ToolDone(r.w, "success: No active tmux sessions found.")
       ELSE IF r.res = "list"
       THEN [ToolDone(r.w, "success: Active tmux sessions") EXCEPT !.ret.out = r.out]
       ELSE TmuxToolResult(r)

\* TmuxSendTool.execute
TmuxSendTool_execute(w, session_name, command) ==
    TmuxToolResult(TmuxSessionManager_send_keys(Get_tmux_manager(w), session_name, command))

\* TmuxCaptureTool.execute
TmuxCaptureTool_execute(w, session_name) ==
    TmuxToolResult(TmuxSessionManager_capture_pane(Get_tmux_manager(w), session_name))

\* TmuxAttachTool.execute
TmuxAttachTool_execute(w, session_name) ==
    TmuxToolResult(TmuxSessionManager_get_attach_command(Get_tmux_manager(w), session_name))

\* TmuxKillTool.execute
TmuxKillTool_execute(w, session_name, killed) ==
    TmuxToolResult(TmuxSessionManager_kill_session(Get_tmux_manager(w), session_name, killed))

\* One tool call dispatched: it runs to its return or to its read.
Dispatch(r, op) ==
    /\ server = "running"
    /\ Apply(r.w)
    /\ rd' = [r.rd EXCEPT !.k = IF r.rd = Idle THEN "none" ELSE op]
    /\ ret' = IF r.rd = Idle THEN [r.ret EXCEPT !.op = op] ELSE ret
    /\ UNCHANGED <<threads, pyserial, registry, plugins, server, client>>

\* The tools that spawn a child; the working_dir asked for is kept with the
\* result, or with the read the tool is suspended in.
DirAsked(r, working_dir) ==
    [r EXCEPT !.ret.req.category = working_dir,
              !.rd.asked = IF r.rd = Idle THEN "None" ELSE working_dir]

Tool_bash ==
    /\ rd = Idle /\ Opens("pty")
    /\ \E working_dir \in WorkingDirs :
         Dispatch(DirAsked(BashTool_execute(World, working_dir), working_dir), "bash")
Tool_connect ==
    /\ rd = Idle /\ Opens("pty")
    /\ \E command \in Commands, working_dir \in WorkingDirs :
         Dispatch(DirAsked(ConnectTool_execute(World, command, working_dir), working_dir),
                  "connect")
Tool_ssh ==
    /\ rd = Idle /\ Opens("pty")
    /\ Dispatch(DirAsked(SSHTool_execute(World), "None"), "ssh")
Tool_telnet ==
    /\ rd = Idle /\ Opens("pty")
    /\ Dispatch(DirAsked(TelnetTool_execute(World), "None"), "telnet")
Tool_send == rd = Idle /\ "pty" \in client /\ Dispatch(SendTool_execute(World), "send")
Tool_disconnect ==
    /\ rd = Idle /\ "pty" \in client
    /\ \E how \in HowSet(pty_session.process) :
         Dispatch(DisconnectTool_execute(World, how), "disconnect")
Tool_spawn ==
    /\ rd = Idle /\ Opens("proc")
    /\ \E command \in Commands, working_dir \in WorkingDirs :
         Dispatch(DirAsked(SpawnTool_execute(World, command, working_dir), working_dir),
                  "spawn")
Tool_send_proc == rd = Idle /\ "proc" \in client /\ Dispatch(SendProcTool_execute(World), "send-proc")
Tool_kill_proc ==
    /\ rd = Idle /\ "proc" \in client
    /\ \E how \in HowSet(proc_session.process) :
         Dispatch(KillProcTool_execute(World, how), "kill-proc")
Tool_socket_open ==
    /\ rd = Idle /\ "socket" \in client
    /\ \E host \in Hosts, port \in Ports, protocol \in Protocols :
         Dispatch(SocketOpenTool_execute(World, host, port, protocol), "socket-open")
Tool_socket_read == rd = Idle /\ "socket" \in client /\ Dispatch(SocketReadTool_execute(World), "socket-read")
Tool_socket_close == rd = Idle /\ "socket" \in client /\ Dispatch(SocketCloseTool_execute(World), "socket-close")
Tool_serial_open ==
    /\ rd = Idle /\ Sends("serial")
    /\ \E device \in Devices, baudrate \in Bauds :
         Dispatch(SerialOpenTool_execute(World, device, baudrate, pyserial), "serial-open")
Tool_serial_message ==
    /\ rd = Idle /\ "lines" \in client /\ "serial" \in client
    /\ \E message \in Payloads, add_newline \in BOOLEAN, wait_for_prompt \in BOOLEAN :
         Dispatch([SerialMessageTool_execute(World, message, add_newline, wait_for_prompt)
                     EXCEPT !.ret.req.category =
                              IF add_newline THEN "add_newline" ELSE "raw"],
                  "serial-message")
Tool_serial_read ==
    /\ rd = Idle /\ "serial" \in client
    /\ \E size \in {0, 1} : Dispatch(SerialReadTool_execute(World, size), "serial-read")
Tool_serial_close == rd = Idle /\ "serial" \in client /\ Dispatch(SerialCloseTool_execute(World), "serial-close")
Tool_status == rd = Idle /\ Dispatch(StatusTool_execute(World), "status")
Tool_activate ==
    /\ rd = Idle /\ "project" \in client
    /\ \E project_name \in ProjectNames :
         Dispatch([ActivateTool_execute(World, project_name)
                      EXCEPT !.ret.req.name = project_name], "activate")

\* The tmux tools; the request is kept with the result.
TmuxAsked(r, session_name, command) ==
    [r EXCEPT !.ret.req = [NoRequest EXCEPT !.name = session_name, !.category = command]]

Tool_tmux_start ==
    /\ rd = Idle /\ "tmux" \in client
    /\ \E session_name \in TmuxNames, created \in BOOLEAN :
         Dispatch(TmuxAsked(TmuxStartTool_execute(World, session_name, created),
                            session_name, "bash"), "tmux-start")
Tool_tmux_list == rd = Idle /\ "tmux" \in client /\ Dispatch(TmuxListTool_execute(World), "tmux-list")
Tool_tmux_send ==
    /\ rd = Idle /\ "tmux" \in client
    /\ \E session_name \in TmuxNames, command \in Keys :
         Dispatch(TmuxAsked(TmuxSendTool_execute(World, session_name, command),
                            session_name, command), "tmux-send")
Tool_tmux_capture ==
    /\ rd = Idle /\ "tmux" \in client
    /\ \E session_name \in TmuxNames :
         Dispatch(TmuxAsked(TmuxCaptureTool_execute(World, session_name),
                            session_name, "None"), "tmux-capture")
Tool_tmux_attach ==
    /\ rd = Idle /\ "tmux" \in client
    /\ \E session_name \in TmuxNames :
         Dispatch(TmuxAsked(TmuxAttachTool_execute(World, session_name),
                            session_name, "None"), "tmux-attach")
Tool_tmux_kill ==
    /\ rd = Idle /\ "tmux" \in client
    /\ \E session_name \in TmuxNames, killed \in BOOLEAN :
         Dispatch(TmuxAsked(TmuxKillTool_execute(World, session_name, killed),
                            session_name, "None"), "tmux-kill")

(* ---------------------------------------------------------- ToolRegistry *)
\* isinstance(value, T) for the type a property declares; Python's bool is
\* a subclass of int.  A declared type outside the five is not checked.
IsInstance(value, expected_type) ==
    CASE expected_type = "string" -> value = "string"
      [] expected_type = "number" -> value \in {"integer", "boolean"}
      [] expected_type = "boolean" -> value = "boolean"
      [] expected_type = "array" -> value = "array"
      [] expected_type = "object" -> value = "object"
      [] OTHER -> TRUE

\* The first of a sequence of fields that is in the set bad, as a one-element
\* sequence; <<>> if there is none.
FirstField(fields, bad) ==
    LET at == {i \in DOMAIN fields : fields[i] \in bad}
    IN IF at = {} THEN <<>> ELSE <<fields[Min(at)]>>

\* BaseTool.validate_arguments without its loop over the required fields.
Mutant_BaseTool_validate_arguments(input_schema, arguments) ==
    LET required == input_schema.required
        properties == input_schema.properties
        Absent(field) == arguments.v[field] = "absent"
        Mistyped(field) ==
            /\ arguments.v[field] # "absent"
            /\ properties[field] # "undeclared"
            /\ ~IsInstance(arguments.v[field], properties[field])
        missing == <<>>
        mistyped == FirstField(FieldOrder, {f \in Fields : Mistyped(f)})
    IN IF ~arguments.dict
       THEN [raised |-> IF required # <<>> THEN "TypeError" ELSE "AttributeError",
             err |-> <<>>]
       ELSE IF missing # <<>>
       THEN [raised |-> "none", err |-> <<"Missing required field">> \o missing]
       ELSE IF mistyped # <<>>
       THEN [raised |-> "none",
             err |-> <<"Field must be">> \o mistyped \o <<properties[mistyped[1]]>>]
       ELSE [raised |-> "none", err |-> <<>>]

\* BaseTool.validate_arguments: None (err = <<>>), an error message, or the
\* exception Python raises when arguments is not a dict.
BaseTool_validate_arguments(input_schema, arguments) ==
    LET required == input_schema.required
        properties == input_schema.properties
        Absent(field) == arguments.v[field] = "absent"
        Mistyped(field) ==
            /\ arguments.v[field] # "absent"
            /\ properties[field] # "undeclared"
            /\ ~IsInstance(arguments.v[field], properties[field])
        missing == FirstField(required, {f \in Fields : Absent(f)})
        mistyped == FirstField(FieldOrder, {f \in Fields : Mistyped(f)})
    IN IF ~arguments.dict
       THEN [raised |-> IF required # <<>> THEN "TypeError" ELSE "AttributeError",
             err |-> <<>>]
       ELSE IF missing # <<>>
       THEN [raised |-> "none", err |-> <<"Missing required field">> \o missing]
       ELSE IF mistyped # <<>>
       THEN [raised |-> "none",
             err |-> <<"Field must be">> \o mistyped \o <<properties[mistyped[1]]>>]
       ELSE [raised |-> "none", err |-> <<>>]

\* A constructor that builds a SessionManager of its own.
Mutant_BaseTool_init(class, session_manager) ==
    [cls |-> class.cls, name |-> class.name, category |-> class.category,
     catprop |-> class.catprop, schema |-> class.schema,
     behaviour |-> class.behaviour, sm |-> "other"]

\* tool_class(session_manager): BaseTool.__init__ stores the argument.
BaseTool_init(class, session_manager) ==
    [cls |-> class.cls, name |-> class.name, category |-> class.category,
     catprop |-> class.catprop, schema |-> class.schema,
     behaviour |-> class.behaviour, sm |-> session_manager]

\* ToolResult.to_mcp_response
ToolResult_to_mcp_response(result) ==
    IF result.success
    THEN [kind |-> "text", about |-> <<result.content>>]
    ELSE [kind |-> "text",
          about |-> <<"Error", IF result.error # NoneStr /\ result.error # ""
                               THEN result.error ELSE result.content>>]

\* execute of a handler: it asks its SessionManager for a channel, as the
\* plugins do, and then succeeds, fails with an error text, fails with
\* ToolResult(success=False, content="") (error is None by default), raises
\* or returns no ToolResult.
Handler_execute(tool, w) ==
    LET w1 == IF tool.sm = "given" THEN Get_pty_session(w) ELSE w
    IN CASE tool.behaviour = "success" ->
              [w |-> w1, raised |-> "none", none |-> FALSE,
               result |-> [success |-> TRUE, content |-> "output", error |-> NoneStr]]
         [] tool.behaviour = "failure" ->
              [w |-> w1, raised |-> "none", none |-> FALSE,
               result |-> [success |-> FALSE, content |-> "", error |-> "failed"]]
         [] tool.behaviour = "fails_quietly" ->
              [w |-> w1, raised |-> "none", none |-> FALSE,
               result |-> [success |-> FALSE, content |-> "", error |-> NoneStr]]
         [] tool.behaviour = "raises" ->
              [w |-> w1, raised |-> "RuntimeError", none |-> FALSE,
               result |-> [success |-> FALSE, content |-> "", error |-> NoneStr]]
         [] OTHER ->
              [w |-> w1, raised |-> "none", none |-> TRUE,
               result |-> [success |-> FALSE, content |-> "", error |-> NoneStr]]

\* ToolRegistry.get_tool
ToolRegistry_get_tool(reg, name) ==
    IF name \in ToolNames THEN reg.tools[name] ELSE NoTool

\* ToolRegistry.execute without its "if not tool" block.
Mutant_ToolRegistry_execute(reg, w, tool_name, arguments) ==
    LET tool == ToolRegistry_get_tool(reg, tool_name)
        error == BaseTool_validate_arguments(tool.schema, arguments)
        h == Handler_execute(tool, w)
    IN IF tool = NoTool
       THEN [w |-> w, raised |-> "AttributeError", invoked |-> FALSE, env |-> NoEnvelope]
       ELSE IF error.raised # "none"
       THEN [w |-> w, raised |-> error.raised, invoked |-> FALSE, env |-> NoEnvelope]
       ELSE IF error.err # <<>>
       THEN [w |-> w, raised |-> "none", invoked |-> FALSE,
             env |-> [kind |-> "text", about |-> <<"Invalid arguments">> \o error.err]]
       ELSE IF h.raised # "none"
       THEN [w |-> h.w, raised |-> "none", invoked |-> TRUE,
             env |-> [kind |-> "text", about |-> <<"Error executing tool", h.raised>>]]
       ELSE IF h.none
       THEN [w |-> h.w, raised |-> "none", invoked |-> TRUE,
             env |-> [kind |-> "text",
                      about |-> <<"Error executing tool", "AttributeError">>]]
       ELSE [w |-> h.w, raised |-> "none", invoked |-> TRUE,
             env |-> ToolResult_to_mcp_response(h.result)]

\* ToolRegistry.execute: the world afterwards, the envelope returned or the
\* exception that left execute, and whether the handler's execute ran.
ToolRegistry_execute(reg, w, tool_name, arguments) ==
    LET tool == ToolRegistry_get_tool(reg, tool_name)
        error == BaseTool_validate_arguments(tool.schema, arguments)
        h == Handler_execute(tool, w)
    IN IF tool = NoTool
       THEN [w |-> w, raised |-> "none", invoked |-> FALSE,
             env |-> [kind |-> "text", about |-> <<"Tool not found", tool_name>>]]
       ELSE IF error.raised # "none"
       THEN [w |-> w, raised |-> error.raised, invoked |-> FALSE, env |-> NoEnvelope]
       ELSE IF error.err # <<>>
       THEN [w |-> w, raised |-> "none", invoked |-> FALSE,
             env |-> [kind |-> "text", about |-> <<"Invalid arguments">> \o error.err]]
       ELSE IF h.raised # "none"
       THEN [w |-> h.w, raised |-> "none", invoked |-> TRUE,
             env |-> [kind |-> "text", about |-> <<"Error executing tool", h.raised>>]]
       ELSE IF h.none
       THEN [w |-> h.w, raised |-> "none", invoked |-> TRUE,
             env |-> [kind |-> "text",
                      about |-> <<"Error executing tool", "AttributeError">>]]
       ELSE [w |-> h.w, raised |-> "none", invoked |-> TRUE,
             env |-> ToolResult_to_mcp_response(h.result)]

\* ToolRegistry.register: _tools first, then the category index; the category
\* property raising leaves the method in between.
ToolRegistry_register(reg, tool) ==
    LET r1 == [reg EXCEPT !.tools[tool.name] = tool]
        names == r1.categories[tool.category]
    IN IF tool.catprop = "raises" THEN [reg |-> r1, raised |-> "Exception"]
       ELSE IF \E i \in DOMAIN names : names[i] = tool.name
       THEN [reg |-> r1, raised |-> "none"]
       ELSE [reg |-> [r1 EXCEPT !.categories[tool.category] = Append(@, tool.name)],
             raised |-> "none"]

\* ToolRegistry.register_class
ToolRegistry_register_class(reg, class) ==
    IF class.ctor = "raises" THEN [reg |-> reg, raised |-> "Exception"]
    ELSE ToolRegistry_register(reg, BaseTool_init(class, reg.session_manager))

\* ToolRegistry.list_by_category
ToolRegistry_list_by_category(reg, category) == reg.categories[category]

\* ToolRegistry.__len__
ToolRegistry_len(reg) == Cardinality({n \in ToolNames : reg.tools[n] # NoTool})

\* The inner loop of load_from_directory: each class of a module is
\* instantiated and registered inside its own try.
RECURSIVE LoadClasses(_, _, _, _, _)
LoadClasses(reg, classes, i, category, loaded_count) ==
    IF i > Len(classes) THEN [reg |-> reg, loaded_count |-> loaded_count]
    ELSE LET class == HandlerClasses[classes[i]]
             tool == BaseTool_init(class, reg.session_manager)
             r == ToolRegistry_register(reg, tool)
         IN IF class.ctor = "raises"
            THEN LoadClasses(reg, classes, i + 1, category, loaded_count)
            ELSE IF category # "None" /\ class.catprop = "raises"
            THEN LoadClasses(reg, classes, i + 1, category, loaded_count)
            ELSE IF category # "None" /\ class.category # category
            THEN LoadClasses(reg, classes, i + 1, category, loaded_count)
            ELSE IF r.raised # "none"
            THEN LoadClasses(r.reg, classes, i + 1, category, loaded_count)
            ELSE LoadClasses(r.reg, classes, i + 1, category, loaded_count + 1)

\* ToolRegistry.load_from_directory: the loop over the module files; a module
\* whose import fails is passed over.
RECURSIVE ToolRegistry_load_from_directory(_, _, _, _, _)
ToolRegistry_load_from_directory(reg, modules, i, category, loaded_count) ==
    IF i > Len(modules) THEN [reg |-> reg, loaded_count |-> loaded_count]
    ELSE LET module == Modules[modules[i]]
             r == LoadClasses(reg, module.classes, 1, category, loaded_count)
         IN IF ~module.imports
            THEN ToolRegistry_load_from_directory(reg, modules, i + 1, category, loaded_count)
            ELSE ToolRegistry_load_from_directory(r.reg, modules, i + 1, category,
                                                  r.loaded_count)

\* ToolRegistry.load_all_plugins: every category directory, filtered by its
\* own name; counts[category] = count, as a set of entries.
RECURSIVE ToolRegistry_load_all_plugins(_, _, _, _)
ToolRegistry_load_all_plugins(reg, dirs, i, counts) ==
    IF i > Len(dirs) THEN [reg |-> reg, counts |-> counts]
    ELSE LET r == ToolRegistry_load_from_directory(reg, dirs[i].modules, 1,
                                                   dirs[i].category, 0)
         IN ToolRegistry_load_all_plugins(
                r.reg, dirs, i + 1,
                {c \in counts : c.category # dirs[i].category}
                    \cup {[category |-> dirs[i].category, count |-> r.loaded_count]})

\* The sum a caller takes over the counts: "total_tools += count".
RECURSIVE SumCounts(_)
SumCounts(counts) ==
    IF counts = {} THEN 0
    ELSE LET c == CHOOSE x \in counts : TRUE
         IN c.count + SumCounts(counts \ {c})

(* Calls of the registry. *)
RegistryDone(reg, w, r, op, req) ==
    /\ server = "running"
    /\ registry' = reg /\ Apply(w)
    /\ ret' = [r EXCEPT !.op = op, !.req = req]
    /\ UNCHANGED <<threads, pyserial, plugins, server, client, rd>>

Call_execute ==
    /\ rd = Idle /\ "registry" \in client
    /\ \E tool_name \in NamesAsked, arguments \in CallArguments :
         LET r == ToolRegistry_execute(registry, World, tool_name, arguments)
         IN RegistryDone(registry, r.w,
                         [Returned(IF r.raised # "none" THEN r.raised ELSE "dict")
                            EXCEPT !.env = r.env, !.io = r.invoked],
                         "ToolRegistry.execute",
                         [NoRequest EXCEPT !.name = tool_name, !.arguments = arguments])

Call_validate_arguments ==
    /\ rd = Idle /\ "validation" \in client
    /\ \E c \in ClassIds, arguments \in Arguments :
         LET e == BaseTool_validate_arguments(HandlerClasses[c].schema, arguments)
         IN RegistryDone(registry, World,
                         [Returned(IF e.raised # "none" THEN e.raised
                                   ELSE IF e.err = <<>> THEN "None" ELSE "str")
                            EXCEPT !.env = [kind |-> "none", about |-> e.err]],
                         "BaseTool.validate_arguments",
                         [NoRequest EXCEPT !.name = c, !.arguments = arguments])

\* register(tool) with an instance built by the caller, over the registry's
\* SessionManager or over another one.
Call_register ==
    /\ rd = Idle /\ "registry" \in client
    /\ \E c \in ClassIds, session_manager \in {"given", "other"} :
         /\ HandlerClasses[c].ctor = "ok"
         /\ LET r == ToolRegistry_register(registry,
                                           BaseTool_init(HandlerClasses[c], session_manager))
            IN RegistryDone(r.reg, World,
                            Returned(IF r.raised # "none" THEN r.raised ELSE "None"),
                            "ToolRegistry.register", [NoRequest EXCEPT !.name = c])

Call_register_class ==
    /\ rd = Idle /\ "registry" \in client
    /\ \E c \in ClassIds :
         LET r == ToolRegistry_register_class(registry, HandlerClasses[c])
         IN RegistryDone(r.reg, World,
                         Returned(IF r.raised # "none" THEN r.raised ELSE "None"),
                         "ToolRegistry.register_class", [NoRequest EXCEPT !.name = c])

Call_load_from_directory ==
    /\ rd = Idle /\ "discovery" \in client
    /\ \E d \in DOMAIN plugins : \E category \in {"None", plugins[d].category} :
         LET r == ToolRegistry_load_from_directory(registry, plugins[d].modules, 1,
                                                   category, 0)
         IN RegistryDone(r.reg, World, [Returned("int") EXCEPT !.data = r.loaded_count],
                         "ToolRegistry.load_from_directory",
                         [NoRequest EXCEPT !.name = plugins[d].category,
                                           !.category = category])

Call_load_all_plugins ==
    /\ rd = Idle /\ "discovery" \in client
    /\ LET r == ToolRegistry_load_all_plugins(registry, plugins, 1, {})
       IN RegistryDone(r.reg, World,
                       [Returned("dict") EXCEPT !.data = SumCounts(r.counts),
                                                !.out = r.counts],
                       "ToolRegistry.load_all_plugins", NoRequest)

(* The read loops, one pass per step. *)
\* What the caller of a read does once the read has returned.
AfterRead(k, exited, out, waits) ==
    IF k = "spawn"
    THEN IF exited
         THEN /\ proc_session' = [proc_session EXCEPT !.process = None]
              /\ ret' = [ReadReturned("success: Process completed", out, waits)
                           EXCEPT !.op = k]
         ELSE /\ proc_session' = proc_session
              /\ ret' = [ReadReturned("success: Process started", out, waits)
                           EXCEPT !.op = k]
    ELSE /\ proc_session' = proc_session
         /\ ret' = [ReadReturned(IF k \in {"PTYSession.read", "ProcessSession.read"}
                                 THEN "str" ELSE "success", out, waits)
                      EXCEPT !.op = k]

PTY_read_step ==
    /\ server = "running"
    /\ rd.v = "pty"
    /\ LET p == pty_session.process
           r == PTYSession_read_pass(procs[p].buf, rd.out)
       IN /\ procs' = [procs EXCEPT ![p].buf = r.buf]
          /\ IF r.done
             THEN rd' = Idle /\ AfterRead(rd.k, FALSE, r.out, r.waits)
             ELSE rd' = [rd EXCEPT !.out = r.out] /\ UNCHANGED <<ret, proc_session>>
    /\ UNCHANGED <<threads, active_project, config, tmux_manager, tmuxd, pty_session, socket_session, serial_session, openFds, conns, pyserial, registry, plugins, server, client>>

Process_read_step ==
    /\ server = "running"
    /\ rd.v = "proc"
    /\ LET p == proc_session.process
           r == ProcessSession_read_pass(procs[p].buf, rd.out,
                                         procs[p].st = "exited", rd.blocked)
       IN /\ IF r.done /\ rd.k = "spawn" /\ procs[p].st = "exited"
             THEN procs' = [procs EXCEPT ![p] = FreeProc]
             ELSE procs' = [procs EXCEPT ![p].buf = r.buf]
          /\ IF r.done
             THEN rd' = Idle /\ AfterRead(rd.k, procs[p].st = "exited", r.out, r.waits)
             ELSE /\ rd' = [rd EXCEPT !.out = r.out, !.blocked = r.blocked]
                  /\ UNCHANGED <<ret, proc_session>>
    /\ UNCHANGED <<threads, active_project, config, tmux_manager, tmuxd, pty_session, socket_session, serial_session, openFds, conns, pyserial, registry, plugins, server, client>>

(* The environment. *)
\* A running child exits on its own.
ChildExits ==
    /\ server = "running"
    /\ \E p \in Pids :
         /\ procs[p].st = "running"
         /\ procs' = [procs EXCEPT ![p].st = "exited"]
    /\ UNCHANGED <<threads, active_project, config, tmux_manager, tmuxd, pty_session, proc_session, socket_session, serial_session,
                   openFds, conns, pyserial, registry, plugins, server, client, rd, ret>>

\* A running child writes to its terminal or to its stdout pipe: a terminal
\* is read in chunks, a pipe in lines, so only a pipe's newlines are told apart.
ChildWrites ==
    /\ server = "running"
    /\ client \in {{v} : v \in Variants}        \* data flows while one variant is driven
    /\ \E p \in Pids, tok \in {"c", "nl"} :
         /\ procs[p].st = "running"
         /\ Len(procs[p].buf) < MaxBuf
         /\ procs[p].kind = "pty" => tok = "c"
         /\ procs' = [procs EXCEPT ![p].buf = Append(@, tok)]
    /\ UNCHANGED <<threads, active_project, config, tmux_manager, tmuxd, pty_session, proc_session, socket_session, serial_session,
                   openFds, conns, pyserial, registry, plugins, server, client, rd, ret>>

\* The peer of a connected socket, or the device on a serial line, sends data.
PeerSends ==
    /\ server = "running"
    /\ client \in {{v} : v \in Variants}        \* data flows while one variant is driven
    /\ \E c \in ConnIds :
         /\ conns[c].st \in {"connected", "open"}
         /\ conns[c].buf < MaxBuf
         /\ conns' = [conns EXCEPT ![c].buf = @ + 1]
    /\ UNCHANGED <<threads, active_project, config, tmux_manager, tmuxd, pty_session, proc_session, socket_session, serial_session,
                   openFds, procs, pyserial, registry, plugins, server, client, rd, ret>>

\* A tmux session ends because its command exits, or another tmux client
\* of the same user starts or kills one.
TmuxSessionChanges ==
    /\ server = "running"
    /\ "tmux" \in client /\ tmuxd.installed
    /\ \E session_name \in TmuxNames :
         tmuxd' = [tmuxd EXCEPT !.sessions =
                                   IF session_name \in @ THEN @ \ {session_name}
                                   ELSE @ \cup {session_name},
                                 !.pane[session_name] = {}]
    /\ UNCHANGED <<threads, active_project, config, tmux_manager, pty_session, proc_session, socket_session,
                   serial_session, openFds, procs, conns, pyserial, registry,
                   plugins, server, client, rd, ret>>

\* The peer of a TCP connection closes it.
PeerCloses ==
    /\ server = "running"
    /\ \E c \in ConnIds :
         /\ conns[c].kind = "tcp" /\ conns[c].st = "connected"
         /\ conns' = [conns EXCEPT ![c].st = "peer_closed"]
    /\ UNCHANGED <<threads, active_project, config, tmux_manager, tmuxd, pty_session, proc_session, socket_session, serial_session,
                   openFds, procs, pyserial, registry, plugins, server, client, rd, ret>>

(* Shutdown: the input stream ended, an interrupt or a fatal error took the
   entry point's main() to its finally block. *)
Stopped(w, r, op) ==
    /\ server = "running"
    /\ Apply(w) /\ server' = "stopped" /\ ret' = [r EXCEPT !.op = op]
    /\ UNCHANGED <<threads, pyserial, registry, plugins, client, rd>>

\* src/main.py: main()'s finally calls MCPServer.cleanup, which calls
\* cleanup_all inside "try ... except: pass".
Shutdown_main ==
    /\ rd = Idle
    /\ \E how_pty \in HowSet(pty_session.process), how_proc \in HowSet(proc_session.process) :
         LET r == SessionManager_cleanup_all(World, how_pty, how_proc)
         IN Stopped(r.w, Returned("None"), "main.main")

\* pty_mcp_server/server.py: main()'s finally calls session_manager.cleanup()
\* if the SessionManager has such an attribute; it has cleanup_all only.
Shutdown_server == rd = Idle /\ Stopped(World, Returned("None"), "server.main")

\* The process-backed channels share the process table and the descriptor
\* table; the connection-backed channels share the connection table; the two
\* families share no state.
Families == {{"pty", "proc"}, {"socket", "serial"}}

\* The channels one caller drives: a family with silent peers, or a single
\* variant whose peer produces data.
Clients ==
    Families \cup {{v} : v \in Variants}
        \cup {{"tmux"}, {"registry"}, {"validation"}, {"discovery"}}
        \cup {{"project", v} : v \in {"pty", "proc"}}
        \cup {{"lines", v} : v \in {"pty", "proc", "serial"}}

\* The state after SessionManager.__init__: every slot None, no child, no
\* descriptor, no connection.
Init ==
    /\ pty_session = NoPTY
    /\ proc_session = NoProc
    /\ socket_session = NoSocket
    /\ serial_session = NoSerial
    /\ tmux_manager = NoTmux
    /\ client \in Clients
    /\ tmuxd \in [installed : IF client = {"tmux"} THEN BOOLEAN ELSE {TRUE},
                   sessions : {{}}, pane : {[n \in TmuxNames |-> {}]}]
    /\ registry = NewRegistry
    /\ plugins \in IF client = {"discovery"} THEN PluginTrees ELSE {NoPlugins}
    /\ server = "running"
    /\ config \in [projects : {Projects},
                  active_project : IF "project" \in client THEN {"None", "demo"}
                                   ELSE {"None"},
                  cwd : {ServerCwd}]
    /\ active_project = SessionManager_init(config)
    /\ openFds = {}
    /\ procs = [p \in Pids |-> FreeProc]
    /\ conns = [c \in ConnIds |-> FreeConn]
    /\ pyserial \in BOOLEAN
    /\ rd = Idle
    /\ threads = NoThreads
    /\ ret = Returned("none")

ReadStep == PTY_read_step \/ Process_read_step

Calls ==
    \/ Call_get_session
    \/ Call_PTY_start \/ Call_PTY_send \/ Call_PTY_read \/ Call_PTY_terminate
    \/ Call_Process_start \/ Call_Process_send \/ Call_Process_read
    \/ Call_Process_terminate
    \/ Call_Socket_open \/ Call_Socket_send \/ Call_Socket_read \/ Call_Socket_close
    \/ Call_Serial_open \/ Call_Serial_send \/ Call_Serial_read \/ Call_Serial_close
    \/ Call_Tmux_start_session \/ Call_Tmux_kill_session \/ Call_Tmux_cleanup_all
    \/ Call_cleanup_all
    \/ Call_execute \/ Call_validate_arguments \/ Call_register \/ Call_register_class
    \/ Call_load_from_directory \/ Call_load_all_plugins

Tools ==
    \/ Tool_bash \/ Tool_connect \/ Tool_ssh \/ Tool_telnet \/ Tool_send
    \/ Tool_disconnect
    \/ Tool_spawn \/ Tool_send_proc \/ Tool_kill_proc
    \/ Tool_socket_open \/ Tool_socket_read \/ Tool_socket_close
    \/ Tool_serial_message
    \/ Tool_serial_open \/ Tool_serial_read \/ Tool_serial_close
    \/ Tool_status \/ Tool_activate
    \/ Tool_tmux_start \/ Tool_tmux_list \/ Tool_tmux_send \/ Tool_tmux_capture
    \/ Tool_tmux_attach \/ Tool_tmux_kill

\* The server's steps and its peers'.
Next ==
    \/ Calls \/ Tools \/ ReadStep
    \/ ChildExits \/ PeerCloses \/ ChildWrites \/ PeerSends \/ TmuxSessionChanges
    \/ Shutdown_main \/ Shutdown_server

Spec == Init /\ [][Next]_vars

\* The server's own thread keeps running: a read loop that can take a step
\* takes it.  Nothing is assumed of the peers.
FairSpec == Spec /\ WF_vars(ReadStep)

(* -------------------------------------------------- dispatch to threads *)
(* The channel methods statement by statement, for calls that overlap: pc is
   the statement a call is at, and every step reads the fields as they are
   when it runs.  A call run alone from its first pc to "idle" does what the
   method does in one piece. *)
Step(w, pc, res) == [w |-> w, pc |-> pc, res |-> res]

\* PTYSession.send: the not-open check, then os.write on self.master_fd.  A
\* descriptor that is None makes os.write raise TypeError, a closed one EBADF.
PTYSession_send_step(w, pc) ==
    IF pc = "check"
    THEN IF w.pty.process = None
         THEN Step(w, "idle", "RuntimeError: No active PTY session")
         ELSE Step(w, "write", "none")
    ELSE IF w.pty.master_fd = None THEN Step(w, "idle", "TypeError")
    ELSE IF w.pty.master_fd \notin w.fds THEN Step(w, "idle", "OSError: EBADF")
    ELSE Step(w, "idle", "True")

\* PTYSession.terminate that closes the descriptors and keeps self.process.
Mutant_PTYSession_terminate_step(w, pc, how) ==
    CASE pc = "check" -> Step(w, "master", "none")
      [] pc = "master" ->
           IF w.pty.master_fd = None THEN Step(w, "slave", "none")
           ELSE Step([w EXCEPT !.fds = @ \ {w.pty.master_fd}], "master_none", "none")
      [] pc = "master_none" -> Step([w EXCEPT !.pty.master_fd = None], "slave", "none")
      [] pc = "slave" ->
           IF w.pty.slave_fd = None THEN Step(w, "idle", "True")
           ELSE Step([w EXCEPT !.fds = @ \ {w.pty.slave_fd}], "slave_none", "none")
      [] OTHER -> Step([w EXCEPT !.pty.slave_fd = None], "idle", "True")

\* PTYSession.terminate: "if self.process", terminate and wait (kill after
\* the grace period), self.process = None, then for each descriptor the
\* os.close and the assignment of None.
PTYSession_terminate_step(w, pc, how) ==
    CASE pc = "check" ->
           IF w.pty.process # None THEN Step(w, "signal", "none")
           ELSE Step(w, "master", "none")
      [] pc = "signal" ->
           IF w.pty.process = None THEN Step(w, "idle", "AttributeError")
           ELSE IF how = "eperm" THEN Step(w, "idle", "PermissionError")
           ELSE Step([w EXCEPT !.procs[w.pty.process].st = "exited",
                               !.procs[w.pty.process].buf = <<>>], "clear", "none")
      [] pc = "clear" ->
           Step([w EXCEPT !.procs = DropPopen(w.procs, w.pty.process),
                          !.pty.process = None], "master", "none")
      [] pc = "master" ->
           IF w.pty.master_fd = None THEN Step(w, "slave", "none")
           ELSE IF w.pty.master_fd \notin w.fds THEN Step(w, "idle", "OSError: EBADF")
           ELSE Step([w EXCEPT !.fds = @ \ {w.pty.master_fd}], "master_none", "none")
      [] pc = "master_none" -> Step([w EXCEPT !.pty.master_fd = None], "slave", "none")
      [] pc = "slave" ->
           IF w.pty.slave_fd = None THEN Step(w, "idle", "True")
           ELSE IF w.pty.slave_fd \notin w.fds THEN Step(w, "idle", "OSError: EBADF")
           ELSE Step([w EXCEPT !.fds = @ \ {w.pty.slave_fd}], "slave_none", "none")
      [] OTHER -> Step([w EXCEPT !.pty.slave_fd = None], "idle", "True")

\* BashTool.execute into PTYSession.start with no already-active check.
Mutant_BashTool_step(w, pc) ==
    CASE pc = "check" -> Step(w, "openpty", "none")
      [] pc = "openpty" ->
           IF Cardinality(FreeFds(w.fds)) < 2
           THEN Step(w, "idle", "error: exception")
           ELSE LET m == Min(FreeFds(w.fds))
                    sl == Min(FreeFds(w.fds) \ {m})
                IN Step([w EXCEPT !.pty.master_fd = m, !.pty.slave_fd = sl,
                                  !.fds = w.fds \cup {m, sl}], "popen", "none")
      [] OTHER ->
           IF PopenFails(w.procs, "bash")
           THEN Step(w, "idle", "error: exception")
           ELSE Step([w EXCEPT !.pty.process = Min(FreePids(w.procs)),
                               !.procs = Spawned(w.procs, "pty", "bash", Cwd(w, "None"))],
                     "idle", "started")

\* BashTool.execute up to the return of PTYSession.start: the tool's
\* is_active() check, start's "if self.process", pty.openpty() with the two
\* assignments, and Popen with the assignment of self.process.
BashTool_step(w, pc) ==
    CASE pc = "check" ->
           IF PTYSession_is_active(w)
           THEN Step(w, "idle", "error: PTY session already active. Disconnect first.")
           ELSE Step(w, "start", "none")
      [] pc = "start" ->
           IF w.pty.process # None THEN Step(w, "idle", "error: exception")
           ELSE Step(w, "openpty", "none")
      [] pc = "openpty" ->
           IF Cardinality(FreeFds(w.fds)) < 2
           THEN Step(w, "idle", "error: exception")
           ELSE LET m == Min(FreeFds(w.fds))
                    sl == Min(FreeFds(w.fds) \ {m})
                IN Step([w EXCEPT !.pty.master_fd = m, !.pty.slave_fd = sl,
                                  !.fds = w.fds \cup {m, sl}], "popen", "none")
      [] OTHER ->
           IF PopenFails(w.procs, "bash")
           THEN Step(w, "idle", "error: exception")
           ELSE Step([w EXCEPT !.pty.process = Min(FreePids(w.procs)),
                               !.procs = Spawned(w.procs, "pty", "bash", Cwd(w, "None"))],
                     "idle", "started")

ThreadDone(i, r) ==
    /\ Apply(r.w)
    /\ threads' = [threads EXCEPT !.t[i].pc = r.pc, !.t[i].res = r.res]
    /\ UNCHANGED <<pyserial, registry, plugins, server, client, rd, ret>>

\* A command arrives and is handed to a free thread; the handler asks the
\* SessionManager for the terminal channel.
Thread_begin ==
    \E i \in Threads, op \in {"send", "terminate", "bash"} :
        /\ threads.t[i].pc = "idle"
        /\ threads.mode = "sequential" => \A j \in Threads : threads.t[j].pc = "idle"
        /\ Apply(Get_pty_session(World))
        /\ threads' = [threads EXCEPT !.t[i] = [op |-> op, pc |-> "check", res |-> "none"]]
        /\ UNCHANGED <<pyserial, registry, plugins, server, client, rd, ret>>

Thread_send ==
    \E i \in Threads :
        /\ threads.t[i].op = "send" /\ threads.t[i].pc # "idle"
        /\ ThreadDone(i, PTYSession_send_step(World, threads.t[i].pc))

Thread_terminate ==
    \E i \in Threads :
        /\ threads.t[i].op = "terminate" /\ threads.t[i].pc # "idle"
        /\ \E how \in HowSet(pty_session.process) :
             ThreadDone(i, PTYSession_terminate_step(World, threads.t[i].pc, how))

Thread_bash ==
    \E i \in Threads :
        /\ threads.t[i].op = "bash" /\ threads.t[i].pc # "idle"
        /\ ThreadDone(i, BashTool_step(World, threads.t[i].pc))

\* The server with its commands dispatched one at a time or to threads.
ThreadsInit ==
    /\ pty_session = NoPTY /\ proc_session = NoProc
    /\ socket_session = NoSocket /\ serial_session = NoSerial
    /\ tmux_manager = NoTmux
    /\ client = {"pty"}
    /\ tmuxd = [installed |-> TRUE, sessions |-> {}, pane |-> [n \in TmuxNames |-> {}]]
    /\ registry = NewRegistry /\ plugins = NoPlugins
    /\ server = "running" /\ active_project = NoProject
    /\ config = [projects |-> Projects, active_project |-> "None", cwd |-> ServerCwd]
    /\ openFds = {} /\ procs = [p \in Pids |-> FreeProc]
    /\ conns = [c \in ConnIds |-> FreeConn]
    /\ pyserial = TRUE
    /\ rd = Idle
    /\ threads \in [mode : {"sequential", "concurrent"}, t : {NoThreads.t}]
    /\ ret = Returned("none")

ThreadsNext == Thread_begin \/ Thread_send \/ Thread_terminate \/ Thread_bash

ThreadsSpec == ThreadsInit /\ [][ThreadsNext]_vars

(* ================================================================ claims *)
LiveChildren(kind) == {p \in Pids : procs[p].kind = kind /\ procs[p].st = "running"}
LiveConns(kinds) ==
    {c \in ConnIds : conns[c].kind \in kinds
                     /\ conns[c].st \in {"connected", "peer_closed", "open"}}

AtMostOneLive ==
    /\ Cardinality(LiveChildren("pty")) <= 1
    /\ Cardinality(LiveChildren("proc")) <= 1
    /\ Cardinality(LiveConns({"tcp", "udp"})) <= 1
    /\ Cardinality(LiveConns({"serial"})) <= 1

PTYOpenTools == Tool_bash \/ Tool_connect \/ Tool_ssh \/ Tool_telnet

OpenToolRefused ==
    /\ (PTYOpenTools /\ PTYSession_is_active(World))
         => /\ ret'.res = "error: PTY session already active. Disconnect first."
            /\ World' = World
    /\ (Tool_spawn /\ ProcessSession_is_active(World))
         => /\ ret'.res = "error: Process already active. Kill it first."
            /\ World' = World
    /\ (Tool_socket_open /\ SocketSession_is_active(World))
         => /\ ret'.res = "error: Socket already open. Close it first."
            /\ World' = World
    /\ (Tool_serial_open /\ SerialSession_is_active(World))
         => /\ ret'.res = "error: Serial port already open. Close it first."
            /\ World' = World

\* C1: after any sequence of tool calls at most one live child process or
\* connection exists per channel variant, and an open tool invoked while its
\* variant's channel is active returns an error and changes nothing.
C1_AtMostOnePerVariant == []AtMostOneLive /\ [][OpenToolRefused]_vars

\* C1 witness: the spawn tool was refused while a process child is running,
\* next to a running terminal child.
C1_Witness ==
    /\ ret = Ret("spawn", "error: Process already active. Kill it first.")
    /\ ProcessSession_is_active(World)
    /\ PTYSession_is_active(World)

\* A channel that holds the handle its open/start call acquired.
PTYHeld == pty_session.process # None
ProcHeld == proc_session.process # None
SocketHeld == socket_session.socket # None
SerialHeld == serial_session.serial # None

SecondOpenFails ==
    /\ (Call_PTY_start /\ PTYHeld)
         => ret'.res = "RuntimeError: PTY session already active" /\ World' = World
    /\ (Call_Process_start /\ ProcHeld)
         => ret'.res = "RuntimeError: Process already active" /\ World' = World
    /\ (Call_Socket_open /\ SocketHeld)
         => ret'.res = "RuntimeError: Socket already open" /\ World' = World
    /\ (Call_Serial_open /\ SerialHeld)
         => ret'.res = "RuntimeError: Serial port already open" /\ World' = World

\* C2: start/open on a channel that is open fails with the already-open
\* error and leaves every field of the channel, and the OS, as it was.
C2_SecondOpenFails == [][SecondOpenFails]_vars

\* C2 witness: a second open was refused on a connected socket.
C2_Witness ==
    /\ ret = Ret("SocketSession.open", "RuntimeError: Socket already open")
    /\ SocketHeld /\ conns[socket_session.socket].st = "connected"

SendReadNotOpen ==
    /\ ((Call_PTY_send \/ Call_PTY_read) /\ ~PTYHeld)
         => /\ ret'.res = "RuntimeError: No active PTY session" /\ ~ret'.io
            /\ rd' = Idle /\ World' = World
    /\ ((Call_Process_send \/ Call_Process_read) /\ ~ProcHeld)
         => /\ ret'.res = "RuntimeError: No active process" /\ ~ret'.io
            /\ rd' = Idle /\ World' = World
    /\ ((Call_Socket_send \/ Call_Socket_read) /\ ~SocketHeld)
         => /\ ret'.res = "RuntimeError: Socket not open" /\ ~ret'.io
            /\ World' = World
    /\ ((Call_Serial_send \/ Call_Serial_read) /\ ~SerialHeld)
         => /\ ret'.res = "RuntimeError: Serial port not open" /\ ~ret'.io
            /\ World' = World

\* C3: send or read on a channel that is not open (never opened, or closed)
\* raises the not-open error, touches no OS handle and leaves it closed.
C3_SendReadNotOpen == [][SendReadNotOpen]_vars

\* C3 witness: a read was refused on a terminal channel that holds nothing.
C3_Witness ==
    /\ ret = Ret("PTYSession.read", "RuntimeError: No active PTY session")
    /\ pty_session = NewPTY

CloseOnClosed ==
    /\ (Call_PTY_terminate /\ pty_session = NewPTY)
         => ret' = Ret("PTYSession.terminate", "True") /\ World' = World
    /\ (Call_Process_terminate /\ proc_session = NewProc)
         => ret' = Ret("ProcessSession.terminate", "True") /\ World' = World
    /\ (Call_Socket_close /\ socket_session = NewSocket)
         => ret' = Ret("SocketSession.close", "True") /\ World' = World
    /\ (Call_Serial_close /\ serial_session = NewSerial)
         => ret' = Ret("SerialSession.close", "True") /\ World' = World

CloseCloses ==
    /\ (Call_PTY_terminate /\ ret'.res = "True")
         => pty_session' = NewPTY /\ ~PTYSession_is_active(World')
    /\ (Call_Process_terminate /\ ret'.res = "True")
         => proc_session' = NewProc /\ ~ProcessSession_is_active(World')
    /\ Call_Socket_close
         => socket_session' = NewSocket /\ ~SocketSession_is_active(World')
    /\ Call_Serial_close
         => serial_session' = NewSerial /\ ~SerialSession_is_active(World')

\* C4: close()/terminate() on a closed channel raises nothing and changes
\* nothing, and a close that returns leaves the channel closed, so that
\* closing again has the effect of closing once.
C4_CloseIdempotent == [][CloseOnClosed /\ CloseCloses]_vars

\* C4 witness: terminate() returned on a terminal channel that is closed.
C4_Witness ==
    /\ ret = Ret("PTYSession.terminate", "True")
    /\ pty_session = NewPTY

\* A channel holding nothing, or holding all its handles with its child or
\* connection live.  A child that exited, or a peer that closed, on its own
\* and has not been polled since is not held against the channel.
PTYClosedOrOpen ==
    \/ pty_session.master_fd = None /\ pty_session.slave_fd = None
       /\ pty_session.process = None
    \/ pty_session.master_fd # None /\ pty_session.slave_fd # None
       /\ pty_session.process # None
ProcClosedOrOpen ==
    \/ proc_session.process = None
    \/ proc_session.process # None /\ procs[proc_session.process].kind = "proc"
SocketClosedOrOpen ==
    \/ socket_session.socket = None
    \/ socket_session.socket # None
       /\ conns[socket_session.socket].st \in {"connected", "peer_closed"}
SerialClosedOrOpen ==
    \/ serial_session.serial = None
    \/ serial_session.serial # None /\ conns[serial_session.serial].st = "open"

\* C5: every channel is fully closed (holds no handle) or fully open (holds
\* all its handles, its process or connection established); no channel holds
\* some handles without a process or connection.
C5_ClosedOrOpen ==
    PTYClosedOrOpen /\ ProcClosedOrOpen /\ SocketClosedOrOpen /\ SerialClosedOrOpen

AlreadyOpenErrors ==
    {"RuntimeError: PTY session already active", "RuntimeError: Process already active",
     "RuntimeError: Socket already open", "RuntimeError: Serial port already open"}

OpenFailed == ret'.res \notin (AlreadyOpenErrors \cup {"True"})

FailedOpenHoldsNothing ==
    /\ (Call_PTY_start /\ OpenFailed)
         => pty_session' = NewPTY /\ ~PTYSession_is_active(World')
    /\ (Call_Process_start /\ OpenFailed)
         => proc_session' = NewProc /\ ~ProcessSession_is_active(World')
    /\ (Call_Socket_open /\ OpenFailed)
         => socket_session' = NewSocket /\ ~SocketSession_is_active(World')
    /\ (Call_Serial_open /\ OpenFailed)
         => serial_session' = NewSerial /\ ~SerialSession_is_active(World')

\* C6: an open/start that fails for another reason than already-open leaves
\* the channel holding no handle and inactive, so that a later open is not
\* rejected as already-open.
C6_FailedOpenHoldsNothing == [][FailedOpenHoldsNothing]_vars

\* is_active() against the operating system's tables.
IsActiveIff ==
    /\ PTYSession_is_active(World)
         <=> /\ pty_session.process \in LiveChildren("pty")
             /\ {pty_session.master_fd, pty_session.slave_fd} \subseteq openFds
             /\ pty_session.master_fd # pty_session.slave_fd
    /\ ProcessSession_is_active(World) <=> proc_session.process \in LiveChildren("proc")
    /\ SocketSession_is_active(World)
         <=> socket_session.socket \in {c \in ConnIds : conns[c].kind \in {"tcp", "udp"}}
    /\ SerialSession_is_active(World)
         <=> serial_session.serial \in LiveConns({"serial"})

ExitSeen ==
    ChildExits =>
        /\ (PTYHeld /\ procs'[pty_session.process].st = "exited")
             => ~PTYSession_is_active(World')
        /\ (ProcHeld /\ procs'[proc_session.process].st = "exited")
             => ~ProcessSession_is_active(World')

InactiveOutsideOpen ==
    /\ pty_session \in {NoPTY, NewPTY} => ~PTYSession_is_active(World)
    /\ proc_session \in {NoProc, NewProc} => ~ProcessSession_is_active(World)
    /\ socket_session \in {NoSocket, NewSocket} => ~SocketSession_is_active(World)
    /\ serial_session \in {NoSerial, NewSerial} => ~SerialSession_is_active(World)

InactiveAfterClose ==
    /\ Call_PTY_terminate => ~PTYSession_is_active(World')
    /\ Call_Process_terminate => ~ProcessSession_is_active(World')
    /\ Call_Socket_close => ~SocketSession_is_active(World')
    /\ Call_Serial_close => ~SerialSession_is_active(World')

\* C7: is_active() is true exactly when the channel holds its handles and,
\* for terminal and process channels, its child is running: after the child
\* exits on its own is_active() is false with no close() called; it is false
\* before any open and after any close.
C7_IsActive ==
    [](IsActiveIff /\ InactiveOutsideOpen) /\ [][ExitSeen /\ InactiveAfterClose]_vars

TerminateReleases ==
    /\ Call_PTY_terminate
         => /\ pty_session' = NewPTY
            /\ openFds' \cap {pty_session.master_fd, pty_session.slave_fd} = {}
            /\ PTYHeld => procs'[pty_session.process].st # "running"
            /\ ret'.sigs \in {<<>>, <<"SIGTERM">>, <<"SIGTERM", "SIGKILL">>}
            /\ (PTYHeld /\ procs[pty_session.process].st = "exited") => ret'.sigs = <<>>
    /\ Call_Process_terminate
         => /\ proc_session' = NewProc
            /\ ProcHeld => procs'[proc_session.process].st # "running"
            /\ ret'.sigs \in {<<>>, <<"SIGTERM">>, <<"SIGTERM", "SIGKILL">>}
            /\ (ProcHeld /\ procs[proc_session.process].st = "exited") => ret'.sigs = <<>>

\* C8: terminate()/close() asks the child to terminate, kills it only after
\* the grace period, and in every case, the termination step failing
\* included, ends with the process reference cleared and every descriptor
\* the channel held released.
C8_TerminateReleases == [][TerminateReleases]_vars

\* C9: every read(timeout) on an open channel returns after finitely many
\* steps, whatever the peer does.
C9_ReadReturns == (rd # Idle) ~> (rd = Idle)

ReadNothingArrives ==
    /\ (PTY_read_step /\ rd.out = 0 /\ procs[pty_session.process].buf = <<>>)
         => /\ rd' = Idle /\ World' = World
            /\ ret'.res \in {"str", "success"} /\ ret'.data = 0 /\ ret'.waits <= 1
    /\ (Process_read_step /\ rd.out = 0 /\ ~rd.blocked
          /\ procs[proc_session.process].buf = <<>>)
         => /\ rd' = Idle /\ (rd.k # "spawn" => World' = World)
            /\ ret'.data = 0 /\ ret'.waits <= 1
            /\ rd.k # "spawn" => ret'.res \in {"str", "success"}
    /\ (Call_Socket_read /\ SocketHeld
          /\ conns[socket_session.socket] = [kind |-> conns[socket_session.socket].kind,
                                             st |-> "connected", buf |-> 0])
         => /\ World' = World
            /\ ret' = [ReadReturned("(no data received within timeout)", 0, 1)
                         EXCEPT !.op = "SocketSession.read"]
    /\ (Call_Serial_read /\ SerialHeld /\ conns[serial_session.serial].buf = 0)
         => /\ World' = World
            /\ ret'.res = "(no data received)" /\ ret'.data = 0 /\ ret'.waits <= 1
    /\ (Call_PTY_read /\ PTYHeld) => World' = World /\ rd' # Idle
    /\ (Call_Process_read /\ ProcHeld) => World' = World /\ rd' # Idle

\* C10: read(timeout) on an open channel on which nothing arrives makes at
\* most one bounded wait, returns the empty string or the variant's no-data
\* sentinel, raises nothing and leaves the channel as it was.
C10_ReadNothingArrives == [][ReadNothingArrives]_vars

\* C10 witness: a socket read timed out on a connected socket with no data.
C10_Witness ==
    /\ ret = [ReadReturned("(no data received within timeout)", 0, 1)
                EXCEPT !.op = "SocketSession.read"]
    /\ SocketHeld /\ conns[socket_session.socket].st = "connected"

\* An object is the record its slot holds: a slot left as it was holds the
\* identical instance.
AccessorGetsOrCreates ==
    Call_get_session =>
        /\ ret'.op = "get_pty_session" =>
             IF pty_session.exists THEN World' = World
             ELSE World' = [World EXCEPT !.pty = NewPTY] /\ ~PTYSession_is_active(World')
        /\ ret'.op = "get_proc_session" =>
             IF proc_session.exists THEN World' = World
             ELSE World' = [World EXCEPT !.proc = NewProc]
                  /\ ~ProcessSession_is_active(World')
        /\ ret'.op = "get_socket_session" =>
             IF socket_session.exists THEN World' = World
             ELSE World' = [World EXCEPT !.sock = NewSocket]
                  /\ ~SocketSession_is_active(World')
        /\ ret'.op = "get_serial_session" =>
             IF serial_session.exists THEN World' = World
             ELSE World' = [World EXCEPT !.ser = NewSerial]
                  /\ ~SerialSession_is_active(World')
        /\ ret'.op = "get_tmux_manager" =>
             IF tmux_manager.exists THEN World' = World
             ELSE World' = [World EXCEPT !.tmux = NewTmux]

\* C11: the first call of an accessor constructs and stores a closed
\* instance; every later call returns that instance, until the slot is
\* cleared; an accessor never opens, closes or replaces a stored instance.
C11_AccessorGetsOrCreates == [][AccessorGetsOrCreates]_vars

\* C11 witness: get_pty_session was called on a slot holding an open channel,
\* which is still there and open.
C11_Witness == ret.op = "get_pty_session" /\ PTYSession_is_active(World)

CleanupAllCleans ==
    Call_cleanup_all =>
        /\ ret'.res = "None"
        /\ proc_session.exists => proc_session'.process = None
        /\ socket_session.exists => socket_session'.socket = None
        /\ serial_session.exists => serial_session'.serial = None
        /\ tmux_manager.exists => tmux_manager'.sessions = {}
        /\ (pty_session.exists /\ ret'.res = "None") => pty_session' = NewPTY

\* C12: cleanup_all() calls terminate/close on every channel held and cleanup
\* on the tmux manager; when the cleanup of one channel fails the others are
\* cleaned up all the same and cleanup_all raises nothing.
C12_CleanupAllCleans == [][CleanupAllCleans]_vars

\* C13: once shutdown has completed, no child process and no connection
\* opened through the SessionManager is still open.
C13_ShutdownReleases ==
    server = "stopped" =>
        /\ LiveChildren("pty") = {} /\ LiveChildren("proc") = {}
        /\ \A c \in ConnIds : conns[c].kind = "free"

\* C14: ToolRegistry.execute returns an envelope for every name, every
\* arguments value and every handler behaviour; no exception of the handler,
\* of its schema or validation step, or of the conversion of its result
\* leaves execute.
C14_ExecuteReturnsEnvelope ==
    [][Call_execute => ret'.res = "dict" /\ ret'.env.kind = "text"]_vars

NotFoundEnvelope ==
    (Call_execute /\ ToolRegistry_get_tool(registry, ret'.req.name) = NoTool)
        => /\ ret'.res = "dict"
           /\ ret'.env = [kind |-> "text", about |-> <<"Tool not found", ret'.req.name>>]
           /\ ~ret'.io
           /\ registry' = registry /\ World' = World

\* C15: execute on a name that is not registered returns the not-found
\* envelope naming the tool, raises nothing, invokes no handler and leaves
\* the registry and every SessionManager slot unchanged.
C15_NotFoundEnvelope == [][NotFoundEnvelope]_vars

\* C15 witness: a not-found envelope was returned by a registry that holds
\* a handler under another name.
C15_Witness ==
    /\ ret.op = "ToolRegistry.execute" /\ ret.env.about = <<"Tool not found", ret.req.name>>
    /\ \E n \in ToolNames : registry.tools[n] # NoTool

RequiredAbsent(input_schema, arguments) ==
    {i \in DOMAIN input_schema.required : arguments.v[input_schema.required[i]] = "absent"}

MissingFieldEnvelope ==
    LET tool == ToolRegistry_get_tool(registry, ret'.req.name)
        arguments == ret'.req.arguments
    IN (Call_execute /\ tool # NoTool /\ arguments.dict
          /\ RequiredAbsent(tool.schema, arguments) # {})
         => /\ ret'.res = "dict"
            /\ Len(ret'.env.about) = 3
            /\ ret'.env.about[1] = "Invalid arguments"
            /\ ret'.env.about[2] = "Missing required field"
            /\ \E i \in RequiredAbsent(tool.schema, arguments) :
                 ret'.env.about[3] = tool.schema.required[i]
            /\ ~ret'.io
            /\ registry' = registry /\ World' = World

\* C16: execute on a registered tool whose arguments lack a required field
\* returns an invalid-arguments envelope naming the missing field; the
\* handler's execute is not invoked and no state changes.
C16_MissingFieldEnvelope == [][MissingFieldEnvelope]_vars

\* C16 witness: an invalid-arguments envelope about a missing field, from a
\* handler that would have created the terminal channel had it run.
C16_Witness ==
    /\ ret.op = "ToolRegistry.execute" /\ Len(ret.env.about) = 3
    /\ ret.env.about[2] = "Missing required field"
    /\ ~pty_session.exists

\* JSON's types are disjoint: true is no number.
JsonIs(value, expected_type) ==
    CASE expected_type = "string" -> value = "string"
      [] expected_type = "number" -> value = "integer"
      [] expected_type = "boolean" -> value = "boolean"
      [] expected_type = "array" -> value = "array"
      [] expected_type = "object" -> value = "object"
      [] OTHER -> TRUE

ValidationErrorExactly ==
    LET input_schema == HandlerClasses[ret'.req.name].schema
        arguments == ret'.req.arguments
    IN (Call_validate_arguments /\ arguments.dict)
         => (ret'.res # "None"
               <=> \/ RequiredAbsent(input_schema, arguments) # {}
                   \/ \E f \in Fields :
                        /\ arguments.v[f] # "absent"
                        /\ input_schema.properties[f] # "undeclared"
                        /\ ~JsonIs(arguments.v[f], input_schema.properties[f]))

\* C17: validate_arguments returns an error exactly when a required field is
\* absent or a supplied, declared field holds a value that is not of its
\* declared primitive type, the types taken as disjoint as in JSON; it
\* accepts undeclared fields.
C17_ValidationErrorExactly == [][ValidationErrorExactly]_vars

Registered == {n \in ToolNames : registry.tools[n] # NoTool}

CategoryIndexExact ==
    \A c \in Categories :
        LET names == ToolRegistry_list_by_category(registry, c)
        IN /\ \A i, j \in DOMAIN names : i # j => names[i] # names[j]
           /\ \A n \in ToolNames :
                registry.tools[n].catprop = "ok"
                  => ((\E i \in DOMAIN names : names[i] = n)
                        <=> (n \in Registered /\ registry.tools[n].category = c))

LastWriteWins ==
    (Call_register /\ ret'.res = "None")
        => LET class == HandlerClasses[ret'.req.name]
           IN /\ ToolRegistry_get_tool(registry', class.name).cls = class.cls
              /\ \A n \in ToolNames \ {class.name} : registry'.tools[n] = registry.tools[n]

\* C18: after any sequence of register calls get_tool(name) is the handler
\* registered last under that name, the length is the number of distinct
\* names, and list_by_category(c) holds exactly the registered names whose
\* current handler declares c, each once.
C18_RegistryIndex ==
    /\ [](ToolRegistry_len(registry) = Cardinality(Registered) /\ CategoryIndexExact)
    /\ [][LastWriteWins]_vars

\* The classes a load comes across in importable modules, and those of them
\* that can be instantiated and pass the category filter.
ClassesIn(modules) ==
    UNION {{Modules[modules[i]].classes[k] : k \in DOMAIN Modules[modules[i]].classes} :
             i \in {x \in DOMAIN modules : Modules[modules[x]].imports}}
Loadable(c, category) ==
    /\ HandlerClasses[c].ctor = "ok" /\ HandlerClasses[c].catprop = "ok"
    /\ category = "None" \/ HandlerClasses[c].category = category

DiscoverySkipsAndContinues(modules, category) ==
    /\ \A c \in ClassesIn(modules) :
         Loadable(c, category)
           => \E g \in ClassesIn(modules) :
                /\ Loadable(g, category) /\ HandlerClasses[g].name = HandlerClasses[c].name
                /\ registry'.tools[HandlerClasses[c].name].cls = g
    /\ \A n \in ToolNames :
         (registry'.tools[n] # registry.tools[n])
           => \E g \in ClassesIn(modules) :
                Loadable(g, category) /\ registry'.tools[n].cls = g

DiscoveryStep ==
    /\ Call_load_from_directory
         => \E d \in DOMAIN plugins :
              /\ plugins[d].category = ret'.req.name
              /\ DiscoverySkipsAndContinues(plugins[d].modules, ret'.req.category)
    /\ Call_load_all_plugins
         => \A n \in ToolNames :
              /\ (\E d \in DOMAIN plugins : \E c \in ClassesIn(plugins[d].modules) :
                    Loadable(c, plugins[d].category) /\ HandlerClasses[c].name = n)
                   => registry'.tools[n] # NoTool
              /\ (registry'.tools[n] # registry.tools[n])
                   => \E d \in DOMAIN plugins : \E g \in ClassesIn(plugins[d].modules) :
                        Loadable(g, plugins[d].category) /\ registry'.tools[n].cls = g

\* C19: during load_all_plugins and load_from_directory a module that fails
\* to import and a handler class whose construction or category lookup
\* throws are skipped, and every other handler of the same module, of later
\* modules and of later categories is instantiated and registered.
C19_DiscoverySkipsAndContinues == [][DiscoveryStep]_vars

InjectedManager ==
    (Call_load_from_directory \/ Call_load_all_plugins \/ Call_register_class)
        => \A n \in ToolNames :
             (registry'.tools[n] # registry.tools[n])
               => registry'.tools[n].sm = registry.session_manager

\* C20: every handler registered by discovery (load_all_plugins,
\* load_from_directory, register_class) holds the SessionManager that was
\* given to the ToolRegistry.
C20_InjectedManager == [][InjectedManager]_vars

\* C20 witness: register_class has replaced a handler that held another
\* SessionManager by one that holds the registry's.
C20_Witness ==
    /\ ret.op = "ToolRegistry.register_class" /\ ret.res = "None"
    /\ registry.tools[HandlerClasses[ret.req.name].name].sm = "given"
    /\ \E n \in ToolNames : registry.tools[n].sm = "other"

StartStep == Call_Tmux_start_session \/ Tool_tmux_start
KillStep == Call_Tmux_kill_session \/ Tool_tmux_kill

StartAlreadyExists ==
    (StartStep /\ tmuxd.installed)
        => /\ ret'.res = "error: Session already exists"
                <=> ret'.req.name \in tmuxd.sessions
           /\ ret'.res # "success: Started tmux session"
                => tmuxd' = tmuxd /\ tmux_manager'.sessions = tmux_manager.sessions
           /\ ret'.res = "success: Started tmux session"
                => /\ ret'.req.name \in tmuxd'.sessions
                   /\ ret'.req.name \in tmux_manager'.sessions

\* C21: start_session(name, command) fails with the already-exists error
\* exactly when the daemon has a session of that name, whatever the local
\* tracking table holds; a failed start creates no session and leaves the
\* table unchanged; a successful start adds the session to daemon and table.
C21_StartAlreadyExists == [][StartAlreadyExists]_vars

KilledIsGone ==
    (KillStep /\ ret'.res = "success: Killed session")
        => /\ ret'.req.name \notin tmuxd'.sessions
           /\ ret'.req.name \notin TmuxSessionManager_list_sessions(World').out
           /\ ret'.req.name \notin tmux_manager'.sessions
           /\ TmuxSessionManager_start_session(World', ret'.req.name, TRUE).res
                # "error: Session already exists"

\* C22: after kill_session(name) succeeds the daemon no longer has the
\* session, list_sessions() and the local tracking table do not contain name,
\* and a later start_session(name, ...) is not rejected as already existing.
C22_KilledIsGone == [][KilledIsGone]_vars

\* The world as a manager with tracking table t sees it.
Tracking(t) == [World EXCEPT !.tmux = [exists |-> TRUE, sessions |-> t]]
SameOutcome(a, b) == a.res = b.res /\ a.out = b.out /\ a.w.tmuxd = b.w.tmuxd

\* C23: the result of start_session, list_sessions, send_keys, capture_pane,
\* get_attach_command and kill_session is determined by the daemon's sessions
\* and the call's arguments: managers whose tracking tables differ get the
\* same result, and have the same effect on the daemon, for the same call.
C23_TableIsNoSource ==
    \A t \in SUBSET TmuxNames : \A session_name \in TmuxNames :
        /\ SameOutcome(TmuxSessionManager_list_sessions(Tracking(t)),
                       TmuxSessionManager_list_sessions(Tracking({})))
        /\ SameOutcome(TmuxSessionManager_capture_pane(Tracking(t), session_name),
                       TmuxSessionManager_capture_pane(Tracking({}), session_name))
        /\ SameOutcome(TmuxSessionManager_get_attach_command(Tracking(t), session_name),
                       TmuxSessionManager_get_attach_command(Tracking({}), session_name))
        /\ \A keys \in Keys :
             SameOutcome(TmuxSessionManager_send_keys(Tracking(t), session_name, keys),
                         TmuxSessionManager_send_keys(Tracking({}), session_name, keys))
        /\ \A ok \in BOOLEAN :
             /\ SameOutcome(TmuxSessionManager_start_session(Tracking(t), session_name, ok),
                            TmuxSessionManager_start_session(Tracking({}), session_name, ok))
             /\ SameOutcome(TmuxSessionManager_kill_session(Tracking(t), session_name, ok),
                            TmuxSessionManager_kill_session(Tracking({}), session_name, ok))

\* C23 witness: the manager's table names a session the daemon has lost and
\* misses one the daemon has.
C23_Witness ==
    /\ tmux_manager.exists
    /\ tmux_manager.sessions \ tmuxd.sessions # {}
    /\ tmuxd.sessions \ tmux_manager.sessions # {}

StillUsable(w, n) ==
    /\ \A keys \in Keys : TmuxSessionManager_send_keys(w, n, keys).res = "success: Sent keys"
    /\ TmuxSessionManager_capture_pane(w, n).res = "success: output"
    /\ TmuxSessionManager_kill_session(w, n, TRUE).res = "success: Killed session"

CleanupKeepsSessions ==
    (Call_Tmux_cleanup_all \/ Call_cleanup_all \/ Shutdown_main)
        => /\ tmuxd' = tmuxd
           /\ (tmux_manager.exists /\ ret'.res = "None") => tmux_manager'.sessions = {}
           /\ \A n \in tmuxd.sessions :
                /\ StillUsable(World', n)
                /\ StillUsable([World' EXCEPT !.tmux = NewTmux], n)

TmuxToolStep ==
    \/ Tool_tmux_start \/ Tool_tmux_list \/ Tool_tmux_send
    \/ Tool_tmux_capture \/ Tool_tmux_attach \/ Tool_tmux_kill

\* C25: when the tmux binary is absent every tmux tool (tmux-start,
\* tmux-list, tmux-send, tmux-capture, tmux-attach, tmux-kill) returns the
\* tool-not-installed error.
C25_NotInstalledError ==
    [][(TmuxToolStep /\ ~tmuxd.installed) => ret'.res = "error: tmux is not installed"]_vars

\* The session was started through this manager and is still at the daemon.
Started(n) == n \in tmux_manager.sessions /\ n \in tmuxd.sessions

StartedSessionWorks ==
    /\ (Tool_tmux_send /\ Started(ret'.req.name))
         => /\ ret'.res = "success: Sent keys"
            /\ ret'.req.category \in TmuxSessionManager_capture_pane(World', ret'.req.name).out
    /\ (Tool_tmux_capture /\ Started(ret'.req.name)) => ret'.res = "success: output"
    /\ (Tool_tmux_attach /\ Started(ret'.req.name)) => ret'.res = "success: tmux attach -t"
    /\ Tool_tmux_list => \A n \in TmuxNames : Started(n) => n \in ret'.out

\* C26: from a successful tmux-start(name, command) until that session is
\* killed or ends, tmux-send, tmux-capture and tmux-attach on name succeed,
\* tmux-list contains name, and text sent with tmux-send appears in a later
\* tmux-capture of the session.
C26_StartedSessionWorks == [][StartedSessionWorks]_vars

SpawnTools == {"bash", "connect", "ssh", "telnet", "spawn"}

\* The children a step has spawned.
NewChildren == {p \in Pids : procs[p].kind = "free" /\ procs'[p].kind # "free"}

WorkingDirPrecedence ==
    \A p \in NewChildren :
        (rd'.k \in SpawnTools /\ rd.k = "none")
            => procs'[p].cwd = IF rd'.asked # "None" THEN rd'.asked
                               ELSE IF active_project # NoProject THEN active_project.path
                               ELSE config.cwd

\* C27: the child that bash, connect, ssh, telnet or spawn starts runs in the
\* caller's working_dir if one is given, otherwise in the active project's
\* path if a project is active, otherwise in the server's own directory.
C27_WorkingDirPrecedence == [][WorkingDirPrecedence]_vars

\* A payload that ends with a line terminator: its last character is the
\* newline, alone or after a carriage return.
EndsLine(data) == EndsWith(data, <<"nl">>)

SendMethodStep == Call_PTY_send \/ Call_Process_send

NewlineAddedOnce ==
    /\ (SendMethodStep /\ ret'.res = "True")
         => /\ ret'.wrote = IF EndsLine(ret'.payload) THEN ret'.payload
                            ELSE ret'.payload \o <<"nl">>
            /\ ~EndsLine(ret'.payload)
                 => /\ ret'.op = "PTYSession.send"
                         => PTYSession_send(World, ret'.payload \o <<"nl">>).wrote
                              = ret'.wrote
                    /\ ret'.op = "ProcessSession.send"
                         => ProcessSession_send(World, ret'.payload \o <<"nl">>).wrote
                              = ret'.wrote
    /\ (Tool_serial_message /\ ret'.res = "success: Sent bytes")
         => IF ret'.req.category = "add_newline" /\ ~EndsLine(ret'.payload)
            THEN ret'.wrote = ret'.payload \o <<"cr", "nl">>
            ELSE ret'.wrote = ret'.payload

\* C28: send on the terminal and on the process channel writes the payload
\* followed by exactly one newline when the payload does not end with a line
\* terminator and writes it unchanged when it does, so send(x) and
\* send(x + newline) write the same bytes; serial-message in add-newline mode
\* likewise appends its terminator only when the payload lacks a trailing one.
C28_NewlineAddedOnce == [][NewlineAddedOnce]_vars

\* The parts of an envelope's text after its heading.
Description(env) == SubSeq(env.about, 2, Len(env.about))

EnvelopeTexts ==
    LET tool == ToolRegistry_get_tool(registry, ret'.req.name)
        error == BaseTool_validate_arguments(tool.schema, ret'.req.arguments)
        h == Handler_execute(tool, World)
        failed == \/ tool = NoTool \/ error.err # <<>>
                  \/ h.raised # "none" \/ h.none \/ ~h.result.success
    IN (Call_execute /\ ret'.res = "dict")
         => /\ ret'.env.kind = "text"
            /\ failed => /\ Description(ret'.env) # <<>>
                         /\ \A i \in DOMAIN Description(ret'.env) :
                              Description(ret'.env)[i] # ""
            /\ ~failed => ret'.env.about = <<h.result.content>>

\* C29: every envelope ToolRegistry.execute returns for a failed call (unknown
\* tool, invalid arguments, handler exception, handler result with success
\* false) carries a non-empty error description, and every envelope for a
\* successful call carries the handler's content as its text.
C29_EnvelopeTexts == [][EnvelopeTexts]_vars

SlotCleared ==
    /\ (Tool_disconnect /\ ret'.res = "success: PTY session terminated")
         => /\ pty_session' = NoPTY
            /\ Get_pty_session(World').pty = NewPTY
    /\ (Tool_kill_proc /\ ret'.res = "success: Process terminated")
         => /\ proc_session' = NoProc
            /\ Get_proc_session(World').proc = NewProc
    /\ (Tool_socket_close /\ ret'.res = "success: Socket closed successfully")
         => /\ socket_session' = NoSocket
            /\ Get_socket_session(World').sock = NewSocket
    /\ (Tool_serial_close /\ ret'.res = "success: Serial connection closed")
         => /\ serial_session' = NoSerial
            /\ Get_serial_session(World').ser = NewSerial
    /\ (Call_cleanup_all /\ ret'.res = "None")
         => /\ pty_session.process # None => pty_session' = NoPTY
            /\ proc_session.process # None => proc_session' = NoProc
            /\ socket_session.socket # None => socket_session' = NoSocket
            /\ serial_session.serial # None => serial_session' = NoSerial

\* C30: after a channel is closed, by its close tool (disconnect, kill-proc,
\* socket-close, serial-close) or by SessionManager.cleanup_all(), the
\* SessionManager slot of that variant is empty, so that the next accessor
\* call returns a new closed instance and not the closed one.
C30_SlotCleared == [][SlotCleared]_vars

\* The handles of the operating system: nothing was closed, signalled or reaped.
HandlesUnchanged == procs' = procs /\ openFds' = openFds /\ conns' = conns

\* The result of the last call was the success of the close tool named.
JustClosed(tool) == ret.op = tool /\ ret.res \in
    {"success: PTY session terminated", "success: Process terminated",
     "success: Socket closed successfully", "success: Serial connection closed"}

CloseOfInactive ==
    /\ (Tool_disconnect /\ (~PTYSession_is_active(World) \/ JustClosed("disconnect")))
         => /\ ret'.res = "error: No active PTY session"
            /\ HandlesUnchanged
            /\ pty_session' = Get_pty_session(World).pty
            /\ ~PTYSession_is_active(World')
    /\ (Tool_kill_proc /\ (~ProcessSession_is_active(World) \/ JustClosed("kill-proc")))
         => /\ ret'.res = "error: No active process to kill"
            /\ HandlesUnchanged
            /\ proc_session' = Get_proc_session(World).proc
            /\ ~ProcessSession_is_active(World')
    /\ (Tool_socket_close /\ (~SocketSession_is_active(World) \/ JustClosed("socket-close")))
         => /\ ret'.res = "error: No active socket to close"
            /\ HandlesUnchanged
            /\ socket_session' = Get_socket_session(World).sock
            /\ ~SocketSession_is_active(World')
    /\ (Tool_serial_close /\ (~SerialSession_is_active(World) \/ JustClosed("serial-close")))
         => /\ ret'.res = "error: No active serial connection"
            /\ HandlesUnchanged
            /\ serial_session' = Get_serial_session(World).ser
            /\ ~SerialSession_is_active(World')

Connections(kinds) == {c \in ConnIds : conns[c].kind \in kinds}

\* One pty pair, one child of each kind, one socket and one serial port.
OneSetOfHandles ==
    /\ Cardinality(openFds) <= 2
    /\ Cardinality(LiveChildren("pty")) <= 1 /\ Cardinality(LiveChildren("proc")) <= 1
    /\ Cardinality(Connections({"tcp", "udp"})) <= 1
    /\ Cardinality(Connections({"serial"})) <= 1

ReopenAccepted ==
    /\ (Call_PTY_start /\ ret.op = "PTYSession.terminate")
         => /\ ret'.res # "RuntimeError: PTY session already active"
            /\ ret'.res = "True" => PTYSession_is_active(World')
    /\ (Call_Process_start /\ ret.op = "ProcessSession.terminate")
         => /\ ret'.res # "RuntimeError: Process already active"
            /\ ret'.res = "True" => ProcessSession_is_active(World')
    /\ (Call_Socket_open /\ ret.op = "SocketSession.close")
         => /\ ret'.res # "RuntimeError: Socket already open"
            /\ ret'.res = "True" => SocketSession_is_active(World')
    /\ (Call_Serial_open /\ ret.op = "SerialSession.close")
         => /\ ret'.res # "RuntimeError: Serial port already open"
            /\ ret'.res = "True" => SerialSession_is_active(World')
    /\ (Tool_bash /\ ret.op = "disconnect" /\ ret.res # "error: No active PTY session")
         => ret'.res # "error: PTY session already active. Disconnect first."
    /\ (Tool_spawn /\ ret.op = "kill-proc" /\ ret.res # "error: No active process to kill")
         => ret'.res # "error: Process already active. Kill it first."
    /\ OneSetOfHandles'

\* C32: after terminate()/close() on an open channel a new start/open on the
\* same channel object, or through the tools, is accepted again and makes
\* the channel active; open, close, open can be repeated any number of
\* times, and at every point at most one set of handles is held.
C32_ReopenAccepted == [][ReopenAccepted]_vars

PTYOpenStep == Call_PTY_start \/ Tool_bash \/ Tool_connect \/ Tool_ssh \/ Tool_telnet

\* The open tools and the close tool of the terminal both refuse: bash ends
\* in the already-active error of start, disconnect in nothing-is-active.
BothRefuse(w) ==
    /\ PTYSession_start(Get_pty_session(w), "bash", "None").res
         = "RuntimeError: PTY session already active"
    /\ \A how \in HowSet(w.pty.process) :
         DisconnectTool_execute(w, how).ret.res = "error: No active PTY session"

RejectedOnlyIfActive ==
    /\ (PTYOpenStep /\ pty_session.process # None /\ ~PTYSession_is_active(World))
         => /\ ret'.res \notin {"RuntimeError: PTY session already active",
                                "error: exception",
                                "error: PTY session already active. Disconnect first."}
            /\ PTYSession_is_active(World')
    /\ ((Call_Process_start \/ Tool_spawn)
          /\ proc_session.process # None /\ ~ProcessSession_is_active(World))
         => /\ ret'.res \notin {"RuntimeError: Process already active",
                                "error: exception",
                                "error: Process already active. Kill it first."}
            /\ ProcessSession_is_active(World')
    /\ ((Call_Serial_open \/ Tool_serial_open) /\ ~SerialSession_is_active(World))
         => ret'.res \notin {"RuntimeError: Serial port already open",
                             "error: Serial port already open. Close it first."}
    /\ ~BothRefuse(World')

\* C33: start/open is rejected as already-open only if is_active() was true
\* immediately before the call: once a terminal or process child has exited
\* on its own, or a serial port is no longer open, the next open tool call
\* starts a new session with no other call in between, and the open tools
\* and the close tool never both refuse.
C33_RejectedOnlyIfActive == [][RejectedOnlyIfActive]_vars

\* A send has passed its check and then written to a master descriptor that
\* terminate had closed or set to None.
WroteAfterClose ==
    \E i \in Threads :
        /\ threads.t[i].op = "send"
        /\ threads.t[i].res \in {"TypeError", "OSError: EBADF"}

\* C34: with a send and a terminate on the same terminal channel dispatched
\* concurrently, send can pass its not-open check and then write to the
\* master descriptor after terminate has closed or cleared it; with one
\* command run to completion before the next, no such state is reachable.
C34_SequentialSendIsSafe == threads.mode = "sequential" => ~WroteAfterClose

\* C34 witness: the interleaving under concurrent dispatch.
C34_Witness == threads.mode = "concurrent" /\ WroteAfterClose

\* Two terminal children are alive and the channel references one of them.
TwoChildrenOneReference ==
    /\ Cardinality(LiveChildren("pty")) = 2
    /\ pty_session.process \in LiveChildren("pty")

\* C35: with two start requests for the same channel variant dispatched
\* concurrently both can pass the already-active check, so that two children
\* are alive while the channel references one; with one command run to
\* completion before the next, at most one child is alive and it is the one
\* the channel references.
C35_SequentialStartIsSafe ==
    threads.mode = "sequential"
        => /\ Cardinality(LiveChildren("pty")) <= 1
           /\ LiveChildren("pty") \subseteq {pty_session.process}

\* C35 witness: the two children under concurrent dispatch.
C35_Witness == threads.mode = "concurrent" /\ TwoChildrenOneReference

TmuxNamedStep ==
    \/ Tool_tmux_send \/ Tool_tmux_capture \/ Tool_tmux_attach \/ Tool_tmux_kill
    \/ Call_Tmux_kill_session

NoSessionNotFound ==
    (TmuxNamedStep /\ tmuxd.installed /\ ret'.req.name \notin tmuxd.sessions)
        => /\ ret'.res = "error: Session not found"
           /\ tmuxd' = tmuxd
           /\ tmux_manager'.sessions = tmux_manager.sessions

\* C36: send_keys, capture_pane, get_attach_command and kill_session on a
\* name that has no session at the daemon return the not-found error, run no
\* further multiplexer command, and change neither the daemon's sessions nor
\* the local tracking table.
C36_NoSessionNotFound == [][NoSessionNotFound]_vars

\* An activate of a name the configuration maps to a directory that exists
\* makes that project the active one and persists it; an activate of a name
\* the configuration does not have is an error that changes nothing.
ActivateSets ==
    Tool_activate =>
        LET project_name == ret'.req.name
        IN /\ (/\ project_name \in DOMAIN config.projects
               /\ config.projects[project_name] \in ExistingPaths)
                => /\ active_project' = [name |-> project_name,
                                         path |-> config.projects[project_name]]
                   /\ config'.active_project = project_name
                   /\ SessionManager_init(config') = active_project'
           /\ project_name \notin DOMAIN config.projects
                => /\ ret'.res = "error: Project not found"
                   /\ active_project' = active_project

\* C37: activate(project_name) for a name in the configured name -> path
\* mapping whose path exists sets the SessionManager's active project to
\* that name and path and persists the name, so that a SessionManager
\* constructed later over the same configuration starts with that active
\* project; activate with an unregistered name returns an error and leaves
\* the active project unchanged.
C37_ActivateSets == [][ActivateSets]_vars

\* The handlers a load of a category directory counts: the classes of its
\* importable modules that can be instantiated and declare the category.
Counted(dir) == {c \in ClassesIn(dir.modules) : Loadable(c, dir.category)}

\* load_all_plugins into an empty registry: the counts add up to the size of
\* the registry, and the count of a directory is the number of its handlers
\* that declare the directory's category.
CountsSumToRegistry ==
    (Call_load_all_plugins /\ ToolRegistry_len(registry) = 0)
        => /\ SumCounts(ret'.out) = ToolRegistry_len(registry')
           /\ \A d \in DOMAIN plugins :
                 \E c \in ret'.out :
                    /\ c.category = plugins[d].category
                    /\ c.count = Cardinality(Counted(plugins[d]))

\* C38: the per-category counts returned by load_all_plugins sum to the
\* number of tools in the registry afterwards (each discovered handler is
\* counted once and registered under its own name once), and every tool
\* counted for a category directory declares that category.
C38_CountsSumToRegistry == [][CountsSumToRegistry]_vars

\* The children that run, the descriptors and the connections that are open
\* are the same before and after the step.
NothingOpenedOrClosed ==
    /\ openFds' = openFds
    /\ \A p \in Pids : (procs'[p].st = "running") <=> (procs[p].st = "running")
    /\ \A c \in ConnIds :
         (conns'[c].st \in {"connected", "peer_closed", "open"})
            <=> (conns[c].st \in {"connected", "peer_closed", "open"})

StatusKeepsActive ==
    Tool_status =>
        /\ pty_session'.exists => PTYSession_is_active(World')
        /\ proc_session'.exists => ProcessSession_is_active(World')
        /\ socket_session'.exists => SocketSession_is_active(World')
        /\ serial_session'.exists => SerialSession_is_active(World')
        /\ pty_session' = IF PTYSession_is_active(World) THEN pty_session ELSE NoPTY
        /\ proc_session' = IF ProcessSession_is_active(World) THEN proc_session ELSE NoProc
        /\ socket_session' = IF SocketSession_is_active(World) THEN socket_session
                              ELSE NoSocket
        /\ serial_session' = IF SerialSession_is_active(World) THEN serial_session
                              ELSE NoSerial
        /\ NothingOpenedOrClosed

\* C39: after the status tool has run, every non-empty SessionManager slot
\* holds a channel whose is_active() is true: a slot holding an inactive
\* channel is emptied, slots holding active channels are left untouched, and
\* no channel is opened or closed by the call.
C39_StatusKeepsActive == [][StatusKeepsActive]_vars

\* C39 witness: status has emptied the slot of a terminal whose descriptors
\* are still open and has kept the slot of a running process.
C39_Witness ==
    /\ ret.op = "status" /\ rd = Idle
    /\ ~pty_session.exists /\ openFds # {}
    /\ ProcessSession_is_active(World)

\* Every descriptor that is open, every child that runs and every connection
\* the server holds is one the channel in the slot of its variant refers to.
HandlesOwned ==
    /\ openFds \subseteq {pty_session.master_fd, pty_session.slave_fd}
    /\ LiveChildren("pty") \subseteq {pty_session.process}
    /\ LiveChildren("proc") \subseteq {proc_session.process}
    /\ Connections({"tcp", "udp"}) \subseteq {socket_session.socket}
    /\ Connections({"serial"}) \subseteq {serial_session.serial}

\* A tool call, or a step of the read a tool call is in, keeps it so.
ToolKeepsHandlesOwned == (HandlesOwned /\ (Tools \/ ReadStep)) => HandlesOwned'

\* C40: in every state reachable by sequential tool calls, every OS handle
\* a channel has acquired and not released (pty descriptors, child process,
\* socket, serial port) belongs to the channel object stored in the
\* SessionManager slot of its variant: no tool drops or overwrites a
\* reference to a channel or process that still holds unreleased handles.
C40_ToolKeepsHandlesOwned == [][ToolKeepsHandlesOwned]_vars
====
